---- MODULE Spec2Model ----
(***************************************************************************)
(* State-machine model of the sync pipeline of the ATProto -> Mastodon     *)
(* bridge: SyncService.syncUser, PostFetcher, the post filter chain,       *)
(* MastodonSyncer (syncPosts / syncPostToMastodon / crossPostWithRetry)    *)
(* and the tracking / account / sync-log stores.                           *)
(***************************************************************************)
EXTENDS Integers, Sequences, FiniteSets, TLC

\* ------------------------------------------------------------------ bounds
\* number of syncUser() invocations explored in one behaviour
MaxRuns == 3
\* number of clock ticks explored after the initial instant
MaxTicks == 1
\* number of items the author feed grows to
MaxFeed == 2
\* maxRetries of the injected RetryConfig (config.ts default is 3, tests use 0)
MaxRetries == 1
\* the largest retryConfig.maxRetries of the retry loop taken alone
MaxRetryBound == 6
\* number of characters of the texts the mention filter is called on
MaxText == 2
\* number of characters of a status text besides its filler
MaxBody == 2
\* number of characters by which a status text passes the length limit
MaxOver == 1
\* number of rich-text segments of a post that is transformed
MaxSegments == 3
\* number of media items of a transformation whose urls are resolved
MaxMedia == 3

\* ------------------------------------------------- scaled program constants
\* 24 hours, in clock ticks (post-fetcher.ts: 24 * 60 * 60 * 1000 ms)
Day == 2
\* limit passed by fetchPosts (50 in the source, scaled)
FetchLimit == 2
\* page size literal of the pagination loops (50 in the source, scaled)
PageSize == 2
\* retry delays of BRIDGE_CONFIG.sync.retry, in ms
BaseDelay == 1000
BackoffFactor == 2
MaxDelay == 30000
\* width of the integer hashString cuts to (32 in the source, scaled)
HashBits == 16

\* the first instant of a behaviour: late enough that now - Day is positive
T0 == Day + 1
MaxTime == T0 + MaxTicks

\* the sync_status values of the schema CHECK constraint
SyncStatuses == {"pending", "success", "failed", "skipped"}

\* ------------------------------------------------------------ source posts
\* Source post URIs.  The content of a post is a function of its URI.
Uris == {1, 2, 3}

\* The posts of the runs that exercise every filter of the chain.
FilterUris == {2, 3, 4, 5, 6, 7, 8}

\* A post for the filter manager alone: a reply that starts with a mention.
ChainUris == {9}

\* The posts of the runs that upload media: one image, two images.
MediaUris == {2, 12}

\* Two posts of the same text and no embed: the clock of the client that
\* wrote post 1 is ahead, so both can carry the same record.createdAt.
HashUris == {1, 13}

AllUris == Uris \cup FilterUris \cup ChainUris \cup MediaUris \cup HashUris

\* record.reply is present
HasReply(u) == u \in {3, 9}
\* record.embed.$type, or "none" when the record has no embed
EmbedType(u) ==
  CASE u \in {2, 12} -> "app.bsky.embed.images"
    [] u = 4 -> "app.bsky.embed.record"
    [] u = 5 -> "app.bsky.embed.recordWithMedia"
    [] OTHER -> "none"
\* ATProtoValidator.validateATProtoPost(post).valid
IsValid(u) == u # 6
\* record.text.trim() is the empty string
TextBlank(u) == u \in {2, 7}

\* The characters of a text: what String.length counts (UTF-16 code units),
\* what TextEncoder.encode yields (UTF-8 bytes), and whether trimStart
\* removes the character.
Chars == {"space", "tab", "nbsp", "a", "cjk", "zwsp", "emoji", "flag"}

Units(c) ==
  CASE c = "emoji" -> 2
    [] c = "flag" -> 4
    [] OTHER -> 1

Bytes(c) ==
  CASE c \in {"space", "tab", "a"} -> 1
    [] c = "nbsp" -> 2
    [] c \in {"cjk", "zwsp"} -> 3
    [] c = "emoji" -> 4
    [] c = "flag" -> 8
    [] c = "lone" -> 3

IsWhiteSpace(c) == c \in {"space", "tab", "nbsp", "newline"}

\* record.text, a sequence of characters
PostText(u) ==
  CASE u = 2 -> <<"space">>
    [] u = 7 -> <<>>
    [] u = 9 -> <<"space", "a">>
    [] OTHER -> <<"a">>

\* record.facets: [byteStart, mention], mention telling whether some feature
\* of the facet is an app.bsky.richtext.facet#mention
PostFacets(u) ==
  CASE u = 8 -> {[byteStart |-> 0, mention |-> TRUE]}
    [] u = 9 -> {[byteStart |-> 1, mention |-> TRUE]}
    [] OTHER -> {}
\* how far the clock of the client that writes record.createdAt is ahead
ClockSkew(u) == IF u = 1 THEN 1 ELSE 0
\* number of media items of the post's embed (app.bsky.embed.images)
NumMedia(u) == IF u = 2 THEN 1 ELSE IF u = 12 THEN 2 ELSE 0

VARIABLES
  now,          \* Date.now()
  account,      \* the single user-account record, or the absence of one
  storageKind,  \* "memory" (InMemoryStorageProvider) or "sqlite"
  clientKind,   \* "cursor": the client has fetchPostsWithCursor; "plain": not
  feed,         \* the author feed, head first: items [uri, at]
  createdAt,    \* record.createdAt of each existing post (0: no such post)
  feedVer,      \* number of changes made to the feed so far
  tracking,     \* the rows of the post-tracking table, in insertion order
  dest,         \* the posts created on the destination, in order: [uri, media]
  syncLogs,     \* the sync-log table, in insertion order
  run,          \* per run: position in syncUser and its local variables
  started,      \* number of syncUser() invocations so far
  returned,     \* number of syncUser() invocations that have returned
  last,         \* summary of the most recently returned invocation
  call          \* a call of a function on its own: arguments and result

vars == <<now, account, storageKind, clientKind, call, feed, createdAt, feedVer,
          tracking, dest, syncLogs, run, started, returned, last>>

Runs == {1, 2}

Min(a, b) == IF a < b THEN a ELSE b

RECURSIVE Pow(_, _)
Pow(b, e) == IF e = 0 THEN 1 ELSE b * Pow(b, e - 1)

\* ------------------------------------------------------------------ errors
\* A thrown value: an Error object with a message, or some other value.
Err(m) == [isError |-> TRUE, message |-> m]
\* a value that is not an instance of Error (a rejected string, say)
NonError == [isError |-> FALSE, message |-> "thrown value"]
\* lastError = null
NoError == [isError |-> FALSE, message |-> "null"]

\* what the destination's createPost may throw
DestErrors == {Err("Network error"), Err("429 Too Many Requests"),
               Err("422 Unprocessable Entity"), NonError}

\* the substrings isRetryableError looks for that message.toLowerCase() holds
KeywordsOf(m) ==
  CASE m = "Network error" -> {"network"}
    [] m = "429 Too Many Requests" -> {"429"}
    [] m = "Failed to fetch author feed" -> {"fetch"}
    [] OTHER -> {}

IsRetryableErrorNoRateLimit(e) ==
  /\ e.isError
  /\ \/ KeywordsOf(e.message) \cap {"fetch", "network", "timeout"} # {}
     \/ KeywordsOf(e.message) \cap {"500", "502", "503", "504"} # {}
     \/ "media processing" \in KeywordsOf(e.message)

IsRetryableError(e) ==
  /\ e.isError
  /\ \/ KeywordsOf(e.message) \cap {"fetch", "network", "timeout"} # {}
     \/ KeywordsOf(e.message) \cap {"500", "502", "503", "504"} # {}
     \/ KeywordsOf(e.message) \cap {"429", "rate limit"} # {}
     \/ "media processing" \in KeywordsOf(e.message)

\* error instanceof Error ? error.message : "Unknown error"
MessageOf(e) == IF e.isError THEN e.message ELSE "Unknown error"

\* error instanceof Error ? error : new Error("Unknown error")
AsError(e) == IF e.isError THEN e ELSE Err("Unknown error")

\* --------------------------------------------------------- tracking store
\* String.charCodeAt of the characters of a text
CharCode(c) ==
  CASE c = "space" -> 32
    [] c = "tab" -> 9
    [] c = "a" -> 97
    [] OTHER -> 63

\* the string generateContentHash hashes, as character codes: the text, the
\* digit of createdAt and the first letter of the serialized embed or of null
ContentString(u, ca) ==
  [i \in 1..Len(PostText(u)) |-> CharCode(PostText(u)[i])]
    \o <<48 + ca>>
    \o <<IF EmbedType(u) = "none" THEN 110 ELSE 123>>

\* hash & hash: the signed integer of HashBits bits
ToInt(h) ==
  LET m == h % Pow(2, HashBits)
  IN IF m >= Pow(2, HashBits - 1) THEN m - Pow(2, HashBits) ELSE m

RECURSIVE HashString(_, _)
\* PostTransformer.hashString: hash = ((hash << 5) - hash) + char, cut to
\* the integer width after every character
HashString(hash, str) ==
  IF str = <<>> THEN hash
  ELSE HashString(ToInt(hash * 32 - hash + Head(str)), Tail(str))

\* PostTransformer.generateContentHash of the post as it is now
ContentHash(u) == HashString(0, ContentString(u, createdAt[u]))

Row(u) == [uri |-> u, status |-> "pending", error_message |-> "null",
           retry_count |-> 0, max_retries |-> 3, mastodon_id |-> 0,
           synced_at |-> 0, content_hash |-> ContentHash(u)]

RowIdx(t, u) == {i \in 1..Len(t) : t[i].uri = u}

\* getByUri(uri) finds a row
Tracked(t, u) == RowIdx(t, u) # {}

\* a create that adds a row whether or not the uri has one
MemoryCreateAppend(t, u) == [ok |-> TRUE, t |-> Append(t, Row(u))]

\* InMemoryPostTrackingStorage.create: Map.set replaces the value of a key
\* that is present and appends a new key otherwise; it never throws.
MemoryCreate(t, u) ==
  IF Tracked(t, u)
    THEN [ok |-> TRUE, t |-> [i \in 1..Len(t) |-> IF t[i].uri = u THEN Row(u) ELSE t[i]]]
    ELSE [ok |-> TRUE, t |-> Append(t, Row(u))]

\* SQLitePostTrackingStorage.create: a plain INSERT into a table declared
\* UNIQUE(atproto_uri); the statement fails when the uri is present.
SqliteCreate(t, u) ==
  IF Tracked(t, u)
    THEN [ok |-> FALSE, t |-> t]
    ELSE [ok |-> TRUE, t |-> Append(t, Row(u))]

\* a create that stores nothing
TrackingCreateNone(kind, t, u) == [ok |-> TRUE, t |-> t]

TrackingCreate(kind, t, u) ==
  IF kind = "memory" THEN MemoryCreate(t, u) ELSE SqliteCreate(t, u)

\* what a store call throws when the database cannot be reached
StoreError == Err("Database error")

\* what the failed INSERT throws
UniqueViolation == Err("UNIQUE constraint failed")

\* updateByUri(uri, updates): both stores change the rows of that uri only,
\* and do nothing when there is none.
UpdateSuccess(t, u, id, at) ==
  [i \in 1..Len(t) |->
     IF t[i].uri = u
       THEN [t[i] EXCEPT !.mastodon_id = id, !.status = "success", !.synced_at = at]
       ELSE t[i]]

\* a failure update that leaves the error message as it was
UpdateFailedNoMessage(t, u, msg) ==
  [i \in 1..Len(t) |->
     IF t[i].uri = u
       THEN [t[i] EXCEPT !.status = "failed", !.retry_count = 0]
       ELSE t[i]]

UpdateFailed(t, u, msg) ==
  [i \in 1..Len(t) |->
     IF t[i].uri = u
       THEN [t[i] EXCEPT !.status = "failed", !.error_message = msg, !.retry_count = 0]
       ELSE t[i]]

\* no function is being called on its own
NoCall == [op |-> "none"]

\* ------------------------------------------------------------ filter chain
\* ValidationFilter
ValidationFilter(u) ==
  IF ~IsValid(u) THEN FALSE
  ELSE IF TextBlank(u) /\ EmbedType(u) = "none" THEN FALSE
  ELSE TRUE

\* ReplyFilter
ReplyFilter(u) == ~HasReply(u)

\* RepostFilter
RepostFilter(u) ==
  IF EmbedType(u) = "app.bsky.embed.record" THEN FALSE
  ELSE IF EmbedType(u) = "app.bsky.embed.recordWithMedia" THEN FALSE
  ELSE TRUE

\* The settings argument of the filters: defined is FALSE for undefined.
NoSettings == [defined |-> FALSE, skip_mentions |-> FALSE]

SettingsValues ==
  {NoSettings} \cup {[defined |-> TRUE, skip_mentions |-> b] : b \in BOOLEAN}

\* the settings row of the schema: skip_mentions BOOLEAN DEFAULT TRUE
StoredSettings == [defined |-> TRUE, skip_mentions |-> TRUE]

\* what syncUser hands to filterPosts: the settings field of the object
\* validateSetup returns, which has the fields account and shouldProceed
SyncUserSettings == NoSettings

RECURSIVE TrimStart(_)
\* String.prototype.trimStart
TrimStart(text) ==
  IF text # <<>> /\ IsWhiteSpace(Head(text)) THEN TrimStart(Tail(text)) ELSE text

RECURSIVE Length(_)
\* String.prototype.length
Length(text) ==
  IF text = <<>> THEN 0 ELSE Units(Head(text)) + Length(Tail(text))

RECURSIVE Substring(_, _)
\* text.substring(0, n); a surrogate pair cut in the middle leaves a lone
\* surrogate
Substring(text, n) ==
  IF text = <<>> \/ n <= 0 THEN <<>>
  ELSE IF Units(Head(text)) <= n
    THEN <<Head(text)>> \o Substring(Tail(text), n - Units(Head(text)))
    ELSE <<"lone">>

RECURSIVE EncodeLength(_)
\* new TextEncoder().encode(text).length
EncodeLength(text) ==
  IF text = <<>> THEN 0 ELSE Bytes(Head(text)) + EncodeLength(Tail(text))

\* a filter that compares byteStart with the number of characters trimmed
MentionFilterOnCharCount(text, facets, settings) ==
  IF ~(settings.defined /\ settings.skip_mentions) THEN TRUE
  ELSE IF facets # {}
    THEN ~\E f \in facets :
            f.byteStart = Length(text) - Length(TrimStart(text)) /\ f.mention
    ELSE TRUE

\* MentionFilter.shouldSyncPost on record.text and record.facets
MentionFilterOn(text, facets, settings) ==
  IF ~(settings.defined /\ settings.skip_mentions) THEN TRUE
  ELSE IF facets # {}
    THEN LET trimmedText == TrimStart(text)
             leadingWhitespaceChars == Length(text) - Length(trimmedText)
             leadingWhitespaceBytes ==
               EncodeLength(Substring(text, leadingWhitespaceChars))
             mentionAtStart ==
               \E f \in facets :
                 f.byteStart = leadingWhitespaceBytes /\ f.mention
         IN IF mentionAtStart THEN FALSE ELSE TRUE
    ELSE TRUE

\* MentionFilter
MentionFilter(u, settings) ==
  MentionFilterOn(PostText(u), PostFacets(u), settings)

\* DefaultPostFilter.shouldSyncPost
DefaultPostFilter(u, settings) ==
  /\ ValidationFilter(u)
  /\ ReplyFilter(u)
  /\ RepostFilter(u)
  /\ MentionFilter(u, settings)

\* a chain without the repost filter
ShouldSyncPostNoRepostFilter(u, settings) ==
  ValidationFilter(u) /\ ReplyFilter(u) /\ MentionFilter(u, settings)

\* PostFilterManager.shouldSyncPost with the filters of the constructor
ShouldSyncPost(u, settings) == DefaultPostFilter(u, settings)

RECURSIVE FilterLoop(_, _)
\* SyncService.filterPosts: the posts that pass the chain and have no row
FilterLoop(ps, t) ==
  IF ps = <<>> THEN <<>>
  ELSE LET u == Head(ps)
           rest == FilterLoop(Tail(ps), t)
       IN IF ~ShouldSyncPost(u, SyncUserSettings) THEN rest
          ELSE IF Tracked(t, u) THEN rest
          ELSE <<u>> \o rest

\* a filter that lets a post through unless its row says success
FilterPostsRetryFailed(ps, t) ==
  SelectSeq(ps, LAMBDA u : ShouldSyncPost(u, SyncUserSettings) /\
                           ~\E i \in RowIdx(t, u) : t[i].status = "success")

RECURSIVE Reverse(_)
Reverse(s) == IF s = <<>> THEN <<>> ELSE Append(Reverse(Tail(s)), Head(s))

\* a filter that hands the posts over oldest first
FilterPostsReversed(ps, t) == Reverse(FilterLoop(ps, t))

\* a filter that also drops a post whose content hash some row holds
FilterPostsByHash(ps, t) ==
  SelectSeq(ps, LAMBDA u : /\ ShouldSyncPost(u, SyncUserSettings)
                           /\ ~Tracked(t, u)
                           /\ ~\E i \in 1..Len(t) :
                                 t[i].content_hash = ContentHash(u))

\* a filter that does not look for a row
FilterPostsNoRowCheck(ps, t) ==
  SelectSeq(ps, LAMBDA u : ShouldSyncPost(u, SyncUserSettings))

FilterPosts(ps, t) == FilterLoop(ps, t)

\* ----------------------------------------------------------- source client
\* app.bsky.feed.getAuthorFeed as called by fetchRecentPosts(limit, cursor):
\* the items older than the cursor (all of them without one), at most limit,
\* with the position of the last item returned as the next cursor.
GetAuthorFeed(fd, limit, cursor) ==
  LET older == SelectSeq(fd, LAMBDA it : cursor = 0 \/ it.at < cursor)
      page == SubSeq(older, 1, Min(limit, Len(older)))
  IN [posts |-> page,
      cursor |-> IF page = <<>> THEN 0 ELSE page[Len(page)].at]

\* posts.filter((post) => post.record.createdAt > sinceTime)
NewerThan(ps, ca, since) == SelectSeq(ps, LAMBDA it : ca[it.uri] > since)

RECURSIVE ClientLoop(_, _, _, _, _, _, _, _)
\* the while loop of ATProtoPasswordClient.fetchPostsWithCursor
ClientLoop(fd, ca, allPosts, cursor, finalCursor, sinceTime, limit, n) ==
  IF ~(Len(allPosts) < limit)
    THEN [posts |-> allPosts, cursor |-> finalCursor, requests |-> n]
    ELSE
      LET pg == GetAuthorFeed(fd, Min(PageSize, limit - Len(allPosts)), cursor)
          postsToAdd == IF sinceTime # 0 THEN NewerThan(pg.posts, ca, sinceTime)
                        ELSE pg.posts
      IN IF Len(pg.posts) = 0
           THEN [posts |-> allPosts, cursor |-> finalCursor, requests |-> n + 1]
         ELSE IF sinceTime # 0 /\ Len(postsToAdd) < Len(pg.posts)
           THEN [posts |-> allPosts \o postsToAdd, cursor |-> pg.cursor,
                 requests |-> n + 1]
         ELSE IF Len(pg.posts) < PageSize \/ pg.cursor = 0
           THEN [posts |-> allPosts \o postsToAdd, cursor |-> pg.cursor,
                 requests |-> n + 1]
         ELSE ClientLoop(fd, ca, allPosts \o postsToAdd, pg.cursor, pg.cursor,
                         sinceTime, limit, n + 1)

\* ATProtoPasswordClient.fetchPostsWithCursor(startCursor, sinceTime, limit),
\* reached through ATProtoClientAdapter.fetchPostsWithCursor(params)
ClientFetchPostsWithCursor(fd, ca, startCursor, sinceTime, limit) ==
  LET r == ClientLoop(fd, ca, <<>>, startCursor, 0, sinceTime, limit, 0)
  IN [posts |-> SubSeq(r.posts, 1, Min(limit, Len(r.posts))), cursor |-> r.cursor,
      requests |-> r.requests]

\* ------------------------------------------------------------ post fetcher
OneDayAgo(t) == t - Day

\* lastSyncAt && lastSyncAt > oneDayAgo ? lastSyncAt : oneDayAgo
FallbackTime(lastSyncAt, t) ==
  IF lastSyncAt # 0 /\ lastSyncAt > OneDayAgo(t) THEN lastSyncAt ELSE OneDayAgo(t)

RECURSIVE FallbackLoop(_, _, _, _, _, _, _, _, _)
\* the while loop of PostFetcher.fetchPostsWithCursor for a client without
\* fetchPostsWithCursor
FallbackLoop(fd, ca, allPosts, currentCursor, finalCursor, lastSyncAt, t, limit, n) ==
  IF ~(Len(allPosts) < limit)
    THEN [posts |-> allPosts, cursor |-> finalCursor, requests |-> n]
    ELSE
      LET pg == GetAuthorFeed(fd, Min(PageSize, limit - Len(allPosts)), currentCursor)
          newPosts == IF lastSyncAt # 0
                        THEN NewerThan(pg.posts, ca, FallbackTime(lastSyncAt, t))
                        ELSE pg.posts
      IN IF Len(pg.posts) = 0
           THEN [posts |-> allPosts, cursor |-> finalCursor, requests |-> n + 1]
         ELSE IF \/ Len(pg.posts) < PageSize
                 \/ (lastSyncAt # 0 /\ Len(newPosts) < Len(pg.posts))
                 \/ pg.cursor = 0
           THEN [posts |-> allPosts \o newPosts, cursor |-> pg.cursor,
                 requests |-> n + 1]
         ELSE FallbackLoop(fd, ca, allPosts \o newPosts, pg.cursor, pg.cursor,
                           lastSyncAt, t, limit, n + 1)

\* a fetch that goes on for one post more than the limit
FetchPostsWithCursorOneMore(kind, fd, ca, lastCursor, lastSyncAt, t, limit) ==
  LET r == IF kind = "cursor"
             THEN ClientLoop(fd, ca, <<>>, lastCursor, 0,
                             FallbackTime(lastSyncAt, t), limit + 1, 0)
             ELSE FallbackLoop(fd, ca, <<>>, lastCursor, 0, lastSyncAt, t,
                               limit + 1, 0)
  IN [posts |-> r.posts, cursor |-> r.cursor, first |-> lastCursor,
      requests |-> r.requests]

\* the cursor of the first request PostFetcher.fetchPostsWithCursor has the
\* source client make
FirstCursor(kind, lastCursor, t) ==
  IF kind = "cursor"
    THEN LET cursorDate == IF lastCursor # 0 THEN lastCursor ELSE 0
             shouldResetCursor == cursorDate < OneDayAgo(t)
         IN IF shouldResetCursor THEN 0 ELSE lastCursor
    ELSE lastCursor

\* PostFetcher.fetchPostsWithCursor
FetchPostsWithCursor(kind, fd, ca, lastCursor, lastSyncAt, t, limit) ==
  LET first == FirstCursor(kind, lastCursor, t)
      r == IF kind = "cursor"
             THEN ClientFetchPostsWithCursor(fd, ca, first,
                                             FallbackTime(lastSyncAt, t), limit)
             ELSE FallbackLoop(fd, ca, <<>>, first, 0, lastSyncAt, t, limit, 0)
  IN [posts |-> SubSeq(r.posts, 1, Min(limit, Len(r.posts))), cursor |-> r.cursor,
      first |-> first, requests |-> r.requests]

\* PostFetcher.fetchPosts(atprotoClient, account)
FetchPosts(kind, fd, ca, acct, t) ==
  FetchPostsWithCursor(kind, fd, ca, acct.last_sync_cursor, acct.last_sync_at,
                       t, FetchLimit)

\* what the source client may throw
FetchError == Err("Failed to fetch author feed")

\* -------------------------------------------------------------- retry loop
\* Math.min(baseDelay * Math.pow(backoffFactor, attempt), maxDelay)
\* a backoff without the cap
DelayNoCap(attempt) == BaseDelay * Pow(BackoffFactor, attempt)

Delay(attempt) == Min(BaseDelay * Pow(BackoffFactor, attempt), MaxDelay)

\* a loop that runs one attempt more
ShouldRethrowOffByOne(attempt, e) ==
  \/ attempt = MaxRetries + 1
  \/ ~IsRetryableError(e)

\* a loop that retries whatever the error
ShouldRethrowLast(attempt, e) == attempt = MaxRetries

\* the catch block of crossPostWithRetry: rethrow, or sleep and go on
ShouldRethrow(attempt, e) ==
  \/ attempt = MaxRetries
  \/ ~IsRetryableError(e)

\* -------------------------------------------------------------- sync runs
EmptyResult == [success |-> FALSE, postsProcessed |-> 0, postsSuccessful |-> 0,
                postsFailed |-> 0, errors |-> <<>>]

\* the summary of an invocation that has returned: whether it fetched the feed
\* and came to the end of its try block, and the version of the feed it
\* started on
NoRun == [ran |-> FALSE, normal |-> FALSE, ver |-> 0]

IdleRun == [pc |-> "idle", posts |-> <<>>, newCursor |-> 0, filtered |-> <<>>,
            idx |-> 0, attempt |-> 0, mediaIdx |-> 0, mediaIds |-> <<>>,
            lastError |-> NoError, thrown |-> NoError, calls |-> 0,
            sleeps |-> <<>>, successful |-> 0, failed |-> 0, errors |-> <<>>,
            raised |-> NoError, result |-> EmptyResult, logged |-> FALSE,
            fetched |-> FALSE, startVer |-> 0, startLogs |-> 0,
            startDest |-> 0, startTracked |-> {}, prev |-> NoRun,
            fetchedAt |-> 0, firstCursor |-> 0, requests |-> 0]

\* an entry that loses the message of the exception
GeneralErrorNoMessage(e) ==
  [postUri |-> 0, message |-> "Unknown error", retryable |-> FALSE]

GeneralError(e) == [postUri |-> 0, message |-> MessageOf(e), retryable |-> FALSE]

\* the accounts a deployment can hold when a sync is triggered
Accounts ==
  { [exists |-> e, setup_completed |-> s, tokens |-> k, ids |-> d,
     last_sync_at |-> 0, last_sync_cursor |-> 0] :
       e \in BOOLEAN, s \in BOOLEAN, k \in BOOLEAN, d \in BOOLEAN }

InitAccounts ==
  { a \in Accounts :
      \/ a.exists /\ a.setup_completed /\ a.tokens /\ a.ids
      \/ a.exists /\ a.setup_completed /\ a.tokens /\ ~a.ids
      \/ a.exists /\ a.setup_completed /\ ~a.tokens /\ ~a.ids
      \/ a.exists /\ ~a.setup_completed /\ ~a.tokens /\ ~a.ids
      \/ ~a.exists /\ ~a.setup_completed /\ ~a.tokens /\ ~a.ids }

Init ==
  /\ now = T0
  /\ account \in InitAccounts
  /\ storageKind \in {"memory", "sqlite"}
  /\ clientKind \in {"cursor", "plain"}
  /\ feed = <<>>
  /\ createdAt = [u \in AllUris |-> 0]
  /\ feedVer = 0
  /\ tracking = <<>>
  /\ dest = <<>>
  /\ syncLogs = <<>>
  /\ run = [r \in Runs |-> IdleRun]
  /\ started = 0
  /\ returned = 0
  /\ last = NoRun
  /\ call = NoCall

\* ------------------------------------------------------------- environment
\* A run reads the feed and the clock when it fetches and the clock again
\* when it updates the account; whatever the environment does in between has
\* the effect of the same step taken just before the account update, so the
\* environment steps are taken when no run is between these two points.
\* Once the last run of a behaviour has started nothing reads the feed or the
\* clock of the fetch again, and the environment steps are left out.
Quiet ==
  /\ \A r \in Runs : run[r].pc \in {"idle", "account"}
  /\ started < MaxRuns

\* time passes: a tick is half a day, far longer than a run
Tick ==
  /\ \A r \in Runs : run[r].pc = "idle"
  /\ started < MaxRuns
  /\ now < MaxTime
  /\ now' = now + 1
  /\ UNCHANGED <<account, storageKind, clientKind, call, feed, createdAt, feedVer,
                 tracking, dest, syncLogs, run, started, returned, last>>

\* the user publishes a post on the source; createdAt is set by the user's
\* client, whose clock may be ahead
NewPost(u) ==
  /\ Quiet
  /\ createdAt[u] = 0
  /\ Len(feed) < MaxFeed
  /\ IF feed = <<>> THEN TRUE ELSE Head(feed).at < now
  /\ createdAt' = [createdAt EXCEPT ![u] = now + ClockSkew(u)]
  /\ feed' = <<[uri |-> u, at |-> now]>> \o feed
  /\ feedVer' = feedVer + 1
  /\ UNCHANGED <<now, account, storageKind, clientKind, call, tracking, dest,
                 syncLogs, run, started, returned, last>>

\* the user reposts an own post: the author feed shows the post a second time
Repost(u) ==
  /\ Quiet
  /\ createdAt[u] # 0
  /\ Len(feed) < MaxFeed
  /\ feed # <<>> /\ Head(feed).at < now
  /\ feed' = <<[uri |-> u, at |-> now]>> \o feed
  /\ feedVer' = feedVer + 1
  /\ UNCHANGED <<now, account, storageKind, clientKind, call, createdAt, tracking,
                 dest, syncLogs, run, started, returned, last>>

\* ---------------------------------------------------------------- syncUser
\* what syncUser does up to the fetch: validateSetup and
\* validateAuthenticationAndCreateClients
\* a validation that does not look at the access tokens
SetupOutcomeNoTokenCheck(acct) ==
  IF ~acct.exists THEN "no account"
  ELSE IF ~acct.setup_completed THEN "skip"
  ELSE IF ~acct.ids THEN "no credentials"
  ELSE "proceed"

SetupOutcome(acct) ==
  IF ~acct.exists THEN "no account"
  ELSE IF ~acct.setup_completed THEN "skip"
  ELSE IF ~acct.tokens THEN "skip"
  ELSE IF ~acct.ids THEN "no credentials"
  ELSE "proceed"

SetupError(acct) ==
  IF ~acct.exists THEN Err("User account not found")
  ELSE Err("Missing ATProto credentials")

StartRun(r) ==
  /\ run[r].pc = "idle"
  /\ started < MaxRuns
  /\ started' = started + 1
  /\ LET rec == [IdleRun EXCEPT !.startVer = feedVer, !.prev = last,
                                !.startLogs = Len(syncLogs),
                                !.startDest = Len(dest),
                                !.startTracked = {u \in AllUris : Tracked(tracking, u)}]
         out == SetupOutcome(account)
     IN run' = [run EXCEPT ![r] =
          CASE out = "skip" -> [rec EXCEPT !.pc = "return", !.result.success = TRUE]
            [] out = "proceed" -> [rec EXCEPT !.pc = "fetch"]
            [] OTHER -> [rec EXCEPT !.pc = "log",
                                    !.result.errors = <<GeneralError(SetupError(account))>>]]
  /\ UNCHANGED <<now, account, storageKind, clientKind, call, feed, createdAt,
                 feedVer, tracking, dest, syncLogs, returned, last>>

\* postFetcher.fetchPosts answers
FetchOk(r) ==
  /\ run[r].pc = "fetch"
  /\ LET f == FetchPosts(clientKind, feed, createdAt, account, now)
         uris == [i \in 1..Len(f.posts) |-> f.posts[i].uri]
     IN run' = [run EXCEPT ![r].pc = "filter",
                           ![r].posts = uris,
                           ![r].newCursor = f.cursor,
                           ![r].fetched = TRUE,
                           ![r].fetchedAt = now,
                           ![r].firstCursor = f.first,
                           ![r].requests = f.requests,
                           ![r].result.postsProcessed = Len(uris)]
  /\ UNCHANGED <<now, account, storageKind, clientKind, call, feed, createdAt,
                 feedVer, tracking, dest, syncLogs, started, returned, last>>

\* a failed fetch that still stamps the account
FetchThrowsStamps(r) ==
  /\ run[r].pc = "fetch"
  /\ run' = [run EXCEPT ![r].pc = "log",
                        ![r].result.errors = <<GeneralError(FetchError)>>]
  /\ account' = [account EXCEPT !.last_sync_at = now]
  /\ UNCHANGED <<now, storageKind, clientKind, call, feed, createdAt,
                 feedVer, tracking, dest, syncLogs, started, returned, last>>

\* postFetcher.fetchPosts throws
FetchThrows(r) ==
  /\ run[r].pc = "fetch"
  /\ run' = [run EXCEPT ![r].pc = "log",
                        ![r].result.errors = <<GeneralError(FetchError)>>]
  /\ UNCHANGED <<now, account, storageKind, clientKind, call, feed, createdAt,
                 feedVer, tracking, dest, syncLogs, started, returned, last>>

\* where syncPosts goes after the post at index i; the locals of the call
\* of syncPostToMastodon that ended are gone
NextPost(rec, i) ==
  [rec EXCEPT !.pc = IF i < Len(rec.filtered) THEN "create" ELSE "account",
              !.idx = i + 1, !.attempt = 0, !.mediaIdx = 0, !.mediaIds = <<>>,
              !.lastError = NoError, !.thrown = NoError, !.raised = NoError,
              !.calls = 0, !.sleeps = <<>>]

\* a filterPosts that leaves out the posts another run is working on
FilterExclusive(r) ==
  /\ run[r].pc = "filter"
  /\ LET busy == {u \in AllUris : \E q \in Runs \ {r} :
                    \E i \in 1..Len(run[q].filtered) : run[q].filtered[i] = u}
         rec == [run[r] EXCEPT !.filtered =
                   SelectSeq(FilterPosts(run[r].posts, tracking),
                             LAMBDA u : u \notin busy)]
     IN run' = [run EXCEPT ![r] = NextPost(rec, 0)]
  /\ UNCHANGED <<now, account, storageKind, clientKind, call, feed, createdAt,
                 feedVer, tracking, dest, syncLogs, started, returned, last>>

\* filterPosts, and the entry to the loop of syncPosts
Filter(r) ==
  /\ run[r].pc = "filter"
  /\ LET rec == [run[r] EXCEPT !.filtered = FilterPosts(run[r].posts, tracking)]
     IN run' = [run EXCEPT ![r] = NextPost(rec, 0)]
  /\ UNCHANGED <<now, account, storageKind, clientKind, call, feed, createdAt,
                 feedVer, tracking, dest, syncLogs, started, returned, last>>

\* postTracking.getByUri throws inside filterPosts
FilterThrows(r) ==
  /\ run[r].pc = "filter"
  /\ run[r].posts # <<>>
  /\ \E i \in 1..Len(run[r].posts) :
       ShouldSyncPost(run[r].posts[i], SyncUserSettings)
  /\ run' = [run EXCEPT ![r].pc = "log",
                        ![r].result.errors = <<GeneralError(StoreError)>>]
  /\ UNCHANGED <<now, account, storageKind, clientKind, call, feed, createdAt,
                 feedVer, tracking, dest, syncLogs, started, returned, last>>

Current(r) == run[r].filtered[run[r].idx]

\* syncPostToMastodon up to crossPostWithRetry: the tracking row is created,
\* the post transformed and its blob urls resolved
CreateTracking(r) ==
  /\ run[r].pc = "create"
  /\ LET c == TrackingCreate(storageKind, tracking, Current(r))
     IN /\ tracking' = c.t
        /\ run' = [run EXCEPT ![r] =
                     IF c.ok
                       THEN [run[r] EXCEPT !.pc = "attempt", !.attempt = 0,
                                           !.mediaIdx = 1, !.mediaIds = <<>>,
                                           !.lastError = NoError, !.calls = 0,
                                           !.sleeps = <<>>]
                       ELSE [run[r] EXCEPT !.pc = "failed", !.calls = 0,
                                           !.sleeps = <<>>,
                                           !.thrown = UniqueViolation]]
  /\ UNCHANGED <<now, account, storageKind, clientKind, call, feed, createdAt,
                 feedVer, dest, syncLogs, started, returned, last>>

\* a media failure that fails the attempt
UploadMediaFailsAttempt(r, ok) ==
  /\ run[r].pc = "attempt"
  /\ run[r].mediaIdx <= NumMedia(Current(r))
  /\ run' = [run EXCEPT ![r] =
               IF ok THEN [run[r] EXCEPT !.mediaIdx = @ + 1,
                                         !.mediaIds = Append(@, run[r].mediaIdx)]
                     ELSE [run[r] EXCEPT !.pc = "failed",
                                         !.thrown = AsError(Err("Network error"))]]
  /\ UNCHANGED <<now, account, storageKind, clientKind, call, feed, createdAt,
                 feedVer, tracking, dest, syncLogs, started, returned, last>>

\* one media item of the attempt: fetched and uploaded, or left out
UploadMedia(r, ok) ==
  /\ run[r].pc = "attempt"
  /\ run[r].mediaIdx <= NumMedia(Current(r))
  /\ run' = [run EXCEPT ![r].mediaIdx = @ + 1,
                        ![r].mediaIds = IF ok THEN Append(@, run[r].mediaIdx) ELSE @]
  /\ UNCHANGED <<now, account, storageKind, clientKind, call, feed, createdAt,
                 feedVer, tracking, dest, syncLogs, started, returned, last>>

\* mastodonClient.createPost answers: crossPostWithRetry returns the post
CreatePostOk(r) ==
  /\ run[r].pc = "attempt"
  /\ run[r].mediaIdx > NumMedia(Current(r))
  /\ dest' = Append(dest, [uri |-> Current(r), media |-> run[r].mediaIds])
  /\ run' = [run EXCEPT ![r].pc = "success", ![r].calls = @ + 1]
  /\ UNCHANGED <<now, account, storageKind, clientKind, call, feed, createdAt,
                 feedVer, tracking, syncLogs, started, returned, last>>

\* mastodonClient.createPost throws e: the catch block of crossPostWithRetry
CreatePostThrows(r, e) ==
  /\ run[r].pc = "attempt"
  /\ run[r].mediaIdx > NumMedia(Current(r))
  /\ run' = [run EXCEPT ![r] =
               IF ShouldRethrow(run[r].attempt, e)
                 THEN [run[r] EXCEPT !.pc = "failed", !.calls = @ + 1,
                                     !.raised = e,
                                     !.lastError = AsError(e),
                                     !.thrown = AsError(e)]
                 ELSE [run[r] EXCEPT !.pc = "sleep", !.calls = @ + 1,
                                     !.raised = e,
                                     !.lastError = AsError(e),
                                     !.sleeps = Append(@, Delay(run[r].attempt))]]
  /\ UNCHANGED <<now, account, storageKind, clientKind, call, feed, createdAt,
                 feedVer, tracking, dest, syncLogs, started, returned, last>>

\* the backoff delay is over: the next attempt starts
Wake(r) ==
  /\ run[r].pc = "sleep"
  /\ run' = [run EXCEPT ![r].pc = "attempt", ![r].attempt = @ + 1,
                        ![r].mediaIdx = 1, ![r].mediaIds = <<>>]
  /\ UNCHANGED <<now, account, storageKind, clientKind, call, feed, createdAt,
                 feedVer, tracking, dest, syncLogs, started, returned, last>>

\* the process that runs syncUser is stopped while it waits for the
\* destination: the invocation never returns
Crash(r) ==
  /\ run[r].pc \in {"attempt", "sleep"}
  /\ run' = [run EXCEPT ![r] = IdleRun]
  /\ last' = NoRun
  /\ UNCHANGED <<now, account, storageKind, clientKind, call, feed, createdAt,
                 feedVer, tracking, dest, syncLogs, started, returned>>

\* syncPostToMastodon after crossPostWithRetry, and syncPosts' successful++
MarkSuccess(r) ==
  /\ run[r].pc = "success"
  /\ tracking' = UpdateSuccess(tracking, Current(r), Len(dest), now)
  /\ run' = [run EXCEPT ![r] =
               NextPost([run[r] EXCEPT !.successful = @ + 1], run[r].idx)]
  /\ UNCHANGED <<now, account, storageKind, clientKind, call, feed, createdAt,
                 feedVer, dest, syncLogs, started, returned, last>>

\* a catch block that ends the batch
MarkFailedAbort(r) ==
  /\ run[r].pc = "failed"
  /\ tracking' = UpdateFailed(tracking, run[r].filtered[run[r].idx],
                              MessageOf(run[r].thrown))
  /\ run' = [run EXCEPT ![r].pc = "account", ![r].failed = @ + 1]
  /\ UNCHANGED <<now, account, storageKind, clientKind, call, feed, createdAt,
                 feedVer, dest, syncLogs, started, returned, last>>

\* a catch block that counts the failure and leaves the row as it is
MarkFailedNoUpdate(r) ==
  /\ run[r].pc = "failed"
  /\ run' = [run EXCEPT ![r] =
               NextPost([run[r] EXCEPT
                           !.failed = @ + 1,
                           !.errors = Append(@, [postUri |-> Current(r),
                                                 message |-> MessageOf(run[r].thrown),
                                                 retryable |-> IsRetryableError(run[r].thrown)])],
                        run[r].idx)]
  /\ UNCHANGED <<now, account, storageKind, clientKind, call, feed, createdAt,
                 feedVer, tracking, dest, syncLogs, started, returned, last>>

\* the catch block of syncPosts
MarkFailed(r) ==
  /\ run[r].pc = "failed"
  /\ tracking' = UpdateFailed(tracking, Current(r), MessageOf(run[r].thrown))
  /\ run' = [run EXCEPT ![r] =
               NextPost([run[r] EXCEPT
                           !.failed = @ + 1,
                           !.errors = Append(@, [postUri |-> Current(r),
                                                 message |-> MessageOf(run[r].thrown),
                                                 retryable |-> IsRetryableError(run[r].thrown)])],
                        run[r].idx)]
  /\ UNCHANGED <<now, account, storageKind, clientKind, call, feed, createdAt,
                 feedVer, dest, syncLogs, started, returned, last>>

\* an account update that is left out when a post of the batch has failed
UpdateAccountOnlyIfClean(r) ==
  /\ run[r].pc = "account"
  /\ account' = IF run[r].failed = 0
                  THEN [account EXCEPT !.last_sync_at = now,
                                       !.last_sync_cursor = run[r].newCursor]
                  ELSE account
  /\ run' = [run EXCEPT ![r].pc = "log",
                        ![r].result.postsSuccessful = @ + run[r].successful,
                        ![r].result.postsFailed = @ + run[r].failed,
                        ![r].result.errors = @ \o run[r].errors,
                        ![r].result.success = TRUE]
  /\ UNCHANGED <<now, storageKind, clientKind, call, feed, createdAt, feedVer,
                 tracking, dest, syncLogs, started, returned, last>>

\* syncUser after syncPosts: the counts are added up and the account updated
UpdateAccount(r) ==
  /\ run[r].pc = "account"
  /\ account' = [account EXCEPT !.last_sync_at = now,
                                !.last_sync_cursor = run[r].newCursor]
  /\ run' = [run EXCEPT ![r].pc = "log",
                        ![r].result.postsSuccessful = @ + run[r].successful,
                        ![r].result.postsFailed = @ + run[r].failed,
                        ![r].result.errors = @ \o run[r].errors,
                        ![r].result.success = TRUE]
  /\ UNCHANGED <<now, storageKind, clientKind, call, feed, createdAt, feedVer,
                 tracking, dest, syncLogs, started, returned, last>>

\* syncUser after syncPosts when userAccounts.updateSingle throws: the counts
\* are added up, the account is left as it was
UpdateAccountThrows(r) ==
  /\ run[r].pc = "account"
  /\ run' = [run EXCEPT ![r].pc = "log",
                        ![r].result.postsSuccessful = @ + run[r].successful,
                        ![r].result.postsFailed = @ + run[r].failed,
                        ![r].result.errors =
                           (@ \o run[r].errors) \o <<GeneralError(StoreError)>>]
  /\ UNCHANGED <<now, account, storageKind, clientKind, call, feed, createdAt,
                 feedVer, tracking, dest, syncLogs, started, returned, last>>

\* a log record that counts the posts that were not published as skipped
LogRecordSkippedWrong(res) ==
  [sync_type |-> "cron",
   posts_fetched |-> res.postsProcessed,
   posts_synced |-> res.postsSuccessful,
   posts_failed |-> res.postsFailed,
   posts_skipped |-> res.postsProcessed - res.postsSuccessful,
   error_message |-> IF Len(res.errors) > 0 THEN res.errors[1].message ELSE "undefined"]

LogRecord(res) ==
  [sync_type |-> "cron",
   posts_fetched |-> res.postsProcessed,
   posts_synced |-> res.postsSuccessful,
   posts_failed |-> res.postsFailed,
   posts_skipped |-> res.postsProcessed - res.postsSuccessful - res.postsFailed,
   error_message |-> IF Len(res.errors) > 0 THEN res.errors[1].message ELSE "undefined"]

\* syncLogs.create
WriteLog(r) ==
  /\ run[r].pc = "log"
  /\ syncLogs' = Append(syncLogs, LogRecord(run[r].result))
  /\ run' = [run EXCEPT ![r].pc = "return", ![r].logged = TRUE]
  /\ UNCHANGED <<now, account, storageKind, clientKind, call, feed, createdAt,
                 feedVer, tracking, dest, started, returned, last>>

\* syncUser returns run[r].result to its caller
Return(r) ==
  /\ run[r].pc = "return"
  /\ run' = [run EXCEPT ![r] = IdleRun]
  /\ returned' = returned + 1
  /\ last' = [ran |-> TRUE,
              normal |-> run[r].fetched /\ run[r].result.success,
              ver |-> run[r].startVer]
  /\ UNCHANGED <<now, account, storageKind, clientKind, call, feed, createdAt,
                 feedVer, tracking, dest, syncLogs, started>>

\* the runs of the sequential specification: one syncUser() at a time
SeqRuns == {1}

Next ==
  \/ Tick
  \/ \E u \in Uris : NewPost(u)
  \/ \E u \in Uris : Repost(u)
  \/ \E r \in SeqRuns : StartRun(r)
  \/ \E r \in SeqRuns : FetchOk(r)
  \/ \E r \in SeqRuns : FetchThrows(r)
  \/ \E r \in SeqRuns : Filter(r)
  \/ \E r \in SeqRuns : CreateTracking(r)
  \/ \E r \in SeqRuns, ok \in BOOLEAN : UploadMedia(r, ok)
  \/ \E r \in SeqRuns : CreatePostOk(r)
  \/ \E r \in SeqRuns, e \in DestErrors : CreatePostThrows(r, e)
  \/ \E r \in SeqRuns : Wake(r)
  \/ \E r \in SeqRuns : Crash(r)
  \/ \E r \in SeqRuns : MarkSuccess(r)
  \/ \E r \in SeqRuns : MarkFailed(r)
  \/ \E r \in SeqRuns : UpdateAccount(r)
  \/ \E r \in SeqRuns : WriteLog(r)
  \/ \E r \in SeqRuns : Return(r)

Spec == Init /\ [][Next]_vars

\* the destination errors of the specification with store failures
HardErrors == {Err("422 Unprocessable Entity")}

\* The runs with a store that can fail: getByUri in filterPosts and
\* updateSingle after the batch may throw. The destination answers or
\* refuses a post for good, media uploads succeed and no run is stopped.
NextStore ==
  \/ Tick
  \/ \E u \in Uris : NewPost(u)
  \/ \E r \in SeqRuns : StartRun(r)
  \/ \E r \in SeqRuns : FetchOk(r)
  \/ \E r \in SeqRuns : FetchThrows(r)
  \/ \E r \in SeqRuns : Filter(r)
  \/ \E r \in SeqRuns : FilterThrows(r)
  \/ \E r \in SeqRuns : CreateTracking(r)
  \/ \E r \in SeqRuns : UploadMedia(r, TRUE)
  \/ \E r \in SeqRuns : CreatePostOk(r)
  \/ \E r \in SeqRuns, e \in HardErrors : CreatePostThrows(r, e)
  \/ \E r \in SeqRuns : MarkSuccess(r)
  \/ \E r \in SeqRuns : MarkFailed(r)
  \/ \E r \in SeqRuns : UpdateAccount(r)
  \/ \E r \in SeqRuns : UpdateAccountThrows(r)
  \/ \E r \in SeqRuns : WriteLog(r)
  \/ \E r \in SeqRuns : Return(r)

SpecStore == Init /\ [][NextStore]_vars

\* The runs over posts of every kind the filter chain tells apart. Nothing
\* fails: the source answers, the destination accepts, the store works.
NextFilter ==
  \/ Tick
  \/ \E u \in FilterUris : NewPost(u)
  \/ \E r \in SeqRuns : StartRun(r)
  \/ \E r \in SeqRuns : FetchOk(r)
  \/ \E r \in SeqRuns : Filter(r)
  \/ \E r \in SeqRuns : CreateTracking(r)
  \/ \E r \in SeqRuns : UploadMedia(r, TRUE)
  \/ \E r \in SeqRuns : CreatePostOk(r)
  \/ \E r \in SeqRuns : MarkSuccess(r)
  \/ \E r \in SeqRuns : UpdateAccount(r)
  \/ \E r \in SeqRuns : WriteLog(r)
  \/ \E r \in SeqRuns : Return(r)

SpecFilter == Init /\ [][NextFilter]_vars

\* The runs over posts with images, whose download or upload can fail; the
\* destination can refuse or fail a post as in Spec.
NextMedia ==
  \/ Tick
  \/ \E u \in MediaUris : NewPost(u)
  \/ \E r \in SeqRuns : StartRun(r)
  \/ \E r \in SeqRuns : FetchOk(r)
  \/ \E r \in SeqRuns : Filter(r)
  \/ \E r \in SeqRuns : CreateTracking(r)
  \/ \E r \in SeqRuns, ok \in BOOLEAN : UploadMedia(r, ok)
  \/ \E r \in SeqRuns : CreatePostOk(r)
  \/ \E r \in SeqRuns, e \in DestErrors : CreatePostThrows(r, e)
  \/ \E r \in SeqRuns : Wake(r)
  \/ \E r \in SeqRuns : MarkSuccess(r)
  \/ \E r \in SeqRuns : MarkFailed(r)
  \/ \E r \in SeqRuns : UpdateAccount(r)
  \/ \E r \in SeqRuns : WriteLog(r)
  \/ \E r \in SeqRuns : Return(r)

SpecMedia == Init /\ [][NextMedia]_vars

\* ------------------------------------------------------------- fetch calls
\* One call of fetchPosts on a deployment that has been running for a while:
\* the feed holds up to MaxFeed + 1 posts of any age, and the account any
\* time of last sync and any stored cursor.
FetchTimes == 1..MaxTime

FetchFeeds ==
  { f \in UNION {[1..n -> [uri : Uris, at : FetchTimes]] : n \in 0..(MaxFeed + 1)} :
      \A i, j \in 1..Len(f) : i < j => (f[i].at > f[j].at /\ f[i].uri # f[j].uri) }

InitFetch ==
  /\ now \in T0..MaxTime
  /\ feed \in {f \in FetchFeeds : \A i \in 1..Len(f) : f[i].at <= now}
  /\ createdAt = [u \in AllUris |->
                    IF \E i \in 1..Len(feed) : feed[i].uri = u
                      THEN feed[CHOOSE i \in 1..Len(feed) : feed[i].uri = u].at
                             + ClockSkew(u)
                      ELSE 0]
  /\ account \in { [exists |-> TRUE, setup_completed |-> TRUE, tokens |-> TRUE,
                     ids |-> TRUE, last_sync_at |-> a, last_sync_cursor |-> c] :
                      a \in 0..now, c \in 0..now }
  /\ storageKind = "memory"
  /\ clientKind \in {"cursor", "plain"}
  /\ feedVer = 0
  /\ tracking = <<>>
  /\ dest = <<>>
  /\ syncLogs = <<>>
  /\ run = [r \in Runs |-> IF r \in SeqRuns
                              THEN [IdleRun EXCEPT !.pc = "fetch"]
                              ELSE IdleRun]
  /\ started = MaxRuns
  /\ returned = 0
  /\ last = NoRun
  /\ call = NoCall

NextFetch == \E r \in SeqRuns : FetchOk(r)

SpecFetch == InitFetch /\ [][NextFetch]_vars

\* ------------------------------------------------------------- properties
\* the rows of a uri, and the uris a run has fetched
RowsOf(t, u) == {t[i] : i \in RowIdx(t, u)}

FetchedUris(r) == {run[r].posts[i] : i \in 1..Len(run[r].posts)}

\* the run r has a predecessor that returned, and the feed is what it was
\* when that predecessor started
SameFeedAsPrev(r) ==
  /\ run[r].pc # "idle"
  /\ run[r].prev.ran
  /\ run[r].prev.ver = feedVer

NoPublish(r) ==
  /\ Len(dest) = run[r].startDest
  /\ run[r].successful = 0
  /\ run[r].result.postsSuccessful = 0

\* C1: of two consecutive runs on an unchanged feed, the first of which
\* fetched the feed and returned success, the second publishes nothing:
\* postsSuccessful = 0 and no new destination post
C1_SecondRunPublishesNothing ==
  \A r \in Runs : SameFeedAsPrev(r) /\ run[r].prev.normal => NoPublish(r)

\* C2: an invocation of syncUser that is about to return has appended
\* exactly one sync log record, whatever path it took
C2_OneLogPerInvocation ==
  \A r \in Runs :
    run[r].pc = "return" => Len(syncLogs) = run[r].startLogs + 1

\* C3: a row is created pending, is never removed, and once its status is
\* success or failed no step changes the status
C3_StatusLifecycle ==
  [][\A u \in Uris :
       /\ Tracked(tracking, u) => Tracked(tracking', u)
       /\ ~Tracked(tracking, u) =>
            \A j \in RowIdx(tracking', u) : tracking'[j].status = "pending"
       /\ \A i \in RowIdx(tracking, u) :
            tracking[i].status \in {"success", "failed"} =>
              \A j \in RowIdx(tracking', u) :
                tracking'[j].status = tracking[i].status]_vars

\* C4: a run that started when a uri had a row, in any status, makes no
\* publish attempt for the uri and leaves its row as it is
C4_TrackedUriSkipped ==
  [][\A r \in Runs : \A u \in Uris :
       (run[r].pc # "idle" /\ run'[r] # run[r] /\ u \in run[r].startTracked) =>
         /\ RowsOf(tracking', u) = RowsOf(tracking, u)
         /\ Len(dest') > Len(dest) => dest'[Len(dest')].uri # u
         /\ run'[r].pc \in {"create", "attempt", "sleep", "success", "failed"} =>
              run'[r].filtered[run'[r].idx] # u]_vars

\* a run is through with its batch, having fetched a post whose row an
\* interrupted run left pending
C4_Witness ==
  \E r \in Runs : \E u \in FetchedUris(r) :
    /\ run[r].pc = "account"
    /\ u \in run[r].startTracked
    /\ \E i \in RowIdx(tracking, u) : tracking[i].status = "pending"

\* C5: no two rows of the tracking table have the same atproto_uri
C5_UniqueUri ==
  \A i, j \in 1..Len(tracking) : tracking[i].uri = tracking[j].uri => i = j

\* the in-memory store has been asked to create a row for a uri it holds
C5_Witness ==
  \E r \in Runs :
    /\ storageKind = "memory"
    /\ run[r].pc = "attempt"
    /\ \E j \in 1..(run[r].idx - 1) : run[r].filtered[j] = Current(r)

\* C6: whenever a run is at a media upload or a createPost call for a post,
\* or between two attempts, the pending row of the post is in the table
C6_RowBeforePublish ==
  \A r \in Runs :
    run[r].pc \in {"attempt", "sleep", "success"} =>
      /\ Tracked(tracking, Current(r))
      /\ \A i \in RowIdx(tracking, Current(r)) : tracking[i].status = "pending"

\* a run is about to upload the first media item of a post
C6_Witness ==
  \E r \in Runs :
    /\ run[r].pc = "attempt"
    /\ run[r].calls = 0
    /\ run[r].mediaIdx = 1
    /\ NumMedia(Current(r)) > 0

\* C7: crossPostWithRetry calls createPost at most MaxRetries + 1 times; a
\* call that ends with a retryable error has made exactly MaxRetries + 1
\* attempts and throws the error of the last attempt as it was raised
C7_AttemptBound ==
  \A r \in Runs :
    /\ run[r].calls <= MaxRetries + 1
    /\ (run[r].pc = "failed" /\ IsRetryableError(run[r].raised)) =>
         /\ run[r].calls = MaxRetries + 1
         /\ run[r].thrown = run[r].raised

\* every attempt has failed with a retryable error
C7_Witness ==
  \E r \in Runs :
    /\ run[r].pc = "failed"
    /\ IsRetryableError(run[r].raised)
    /\ run[r].calls = MaxRetries + 1

\* C8: once createPost has raised an error that is not retryable the call
\* has thrown: no sleep and no attempt follows, and when the error came on
\* the first attempt that attempt is the only one
C8_NonRetryableRethrown ==
  \A r \in Runs :
    (run[r].raised # NoError /\ ~IsRetryableError(run[r].raised)) =>
      /\ run[r].pc = "failed"
      /\ run[r].thrown = AsError(run[r].raised)
      /\ run[r].calls = run[r].attempt + 1
      /\ Len(run[r].sleeps) = run[r].attempt
      /\ run[r].attempt = 0 => (run[r].calls = 1 /\ run[r].sleeps = <<>>)

\* the first attempt has failed with an error that is not retryable while
\* attempts were left
C8_Witness ==
  \E r \in Runs :
    /\ run[r].pc = "failed"
    /\ run[r].raised = Err("422 Unprocessable Entity")
    /\ run[r].attempt = 0
    /\ run[r].attempt < MaxRetries

\* C9: syncPosts goes through its whole input whatever fails: the posts
\* before the current one are each counted once as successful or failed, and
\* at the end successful + failed is the length of the input
C9_BatchContinues ==
  \A r \in Runs :
    /\ run[r].pc \in {"create", "attempt", "sleep", "success", "failed"} =>
         /\ run[r].idx \in 1..Len(run[r].filtered)
         /\ run[r].successful + run[r].failed = run[r].idx - 1
    /\ run[r].pc = "account" =>
         /\ run[r].idx = Len(run[r].filtered) + 1
         /\ run[r].successful + run[r].failed = Len(run[r].filtered)
    /\ Len(run[r].errors) = run[r].failed

\* the first post of a batch has failed and the second has been published
C9_Witness ==
  \E r \in Runs :
    /\ run[r].pc = "account"
    /\ Len(run[r].filtered) >= 2
    /\ run[r].failed >= 1
    /\ run[r].errors[1].postUri = run[r].filtered[1]
    /\ run[r].successful >= 1

\* C10: the step that handles the final failure of a post leaves its row
\* failed with the message of the thrown error and retry_count 0, appends
\* one entry with the uri and that message to the errors of the run and adds
\* one to the failed count; at the end of the batch the row of a failed post
\* that the batch held once is still so, and the result of the run carries
\* the entries and the count
C10_FailureRecorded ==
  [][\A r \in Runs :
       /\ (run[r].pc = "failed" /\ run'[r].pc \in {"create", "account"}) =>
            LET u == Current(r)
                m == run[r].thrown.message
            IN /\ Tracked(tracking', u)
               /\ \A i \in RowIdx(tracking', u) :
                    /\ tracking'[i].status = "failed"
                    /\ tracking'[i].error_message = m
                    /\ tracking'[i].retry_count = 0
               /\ Len(run'[r].errors) = Len(run[r].errors) + 1
               /\ SubSeq(run'[r].errors, 1, Len(run[r].errors)) = run[r].errors
               /\ run'[r].errors[Len(run'[r].errors)].postUri = u
               /\ run'[r].errors[Len(run'[r].errors)].message = m
               /\ run'[r].failed = run[r].failed + 1
       /\ run'[r].pc = "account" =>
            \A k \in 1..Len(run'[r].errors) :
              LET e == run'[r].errors[k]
                  f == run'[r].filtered
              IN Cardinality({j \in 1..Len(f) : f[j] = e.postUri}) = 1 =>
                   \A i \in RowIdx(tracking', e.postUri) :
                     /\ tracking'[i].status = "failed"
                     /\ tracking'[i].error_message = e.message
                     /\ tracking'[i].retry_count = 0
       /\ (run[r].pc = "account" /\ run'[r].pc = "log") =>
            /\ run'[r].result.postsFailed = run[r].failed
            /\ run'[r].result.errors = run[r].errors]_vars

\* a run has returned from a batch in which createPost failed for good: the
\* row is failed and the result has the entry
C10_Witness ==
  \E r \in Runs :
    /\ run[r].pc = "log"
    /\ run[r].result.postsFailed = 1
    /\ run[r].result.errors[1].message = "422 Unprocessable Entity"
    /\ \E i \in RowIdx(tracking, run[r].result.errors[1].postUri) :
         /\ tracking[i].status = "failed"
         /\ tracking[i].error_message = "422 Unprocessable Entity"

\* C11: a row carries a destination id and a synced_at exactly when its
\* sync_status is success
C11_DestinationIdIffSuccess ==
  \A i \in 1..Len(tracking) :
    /\ (tracking[i].mastodon_id # 0) <=> (tracking[i].status = "success")
    /\ (tracking[i].synced_at # 0) <=> (tracking[i].status = "success")

\* C12: in the result of every run postsSuccessful + postsFailed is at most
\* postsProcessed; the log record the run writes has the fetched, synced and
\* failed counts of the result and posts_skipped = postsProcessed -
\* postsSuccessful - postsFailed, which is never negative
C12_CountsAddUp ==
  /\ \A r \in Runs :
       /\ run[r].result.postsSuccessful + run[r].result.postsFailed
            <= run[r].result.postsProcessed
       /\ run[r].successful + run[r].failed <= run[r].result.postsProcessed
       /\ (run[r].pc = "return" /\ run[r].logged) =>
            LET l == syncLogs[Len(syncLogs)]
                res == run[r].result
            IN /\ l.posts_fetched = res.postsProcessed
               /\ l.posts_synced = res.postsSuccessful
               /\ l.posts_failed = res.postsFailed
               /\ l.posts_skipped =
                    res.postsProcessed - res.postsSuccessful - res.postsFailed
  /\ \A k \in 1..Len(syncLogs) : syncLogs[k].posts_skipped >= 0

\* a run has logged a batch with one post published, and one failed or
\* skipped
C12_Witness ==
  \E r \in Runs :
    /\ run[r].pc = "return" /\ run[r].logged
    /\ run[r].result.postsProcessed = 2
    /\ run[r].result.postsSuccessful = 1
    /\ syncLogs[Len(syncLogs)].posts_failed + syncLogs[Len(syncLogs)].posts_skipped = 1

\* C13: for an account that exists and has not completed setup or lacks an
\* access token, no step of a run fetches, publishes, writes a row or
\* updates the account, and the run comes to its return with success = true,
\* all counts zero and no errors
C13_SkipIsNoOp ==
  [][\A r \in Runs :
       (/\ run'[r] # run[r]
        /\ account.exists
        /\ (~account.setup_completed \/ ~account.tokens)) =>
         /\ tracking' = tracking
         /\ dest' = dest
         /\ account' = account
         /\ ~run'[r].fetched
         /\ run'[r].pc \in {"return", "idle"}
         /\ run'[r].pc = "return" =>
              run'[r].result = [EmptyResult EXCEPT !.success = TRUE]]_vars

\* a run on an account without access tokens is about to return
C13_Witness ==
  \E r \in Runs :
    /\ run[r].pc = "return"
    /\ account.exists /\ account.setup_completed /\ ~account.tokens
    /\ feed # <<>>

\* the entries of a result that stand for an exception of the run
GeneralEntries(res) == {k \in 1..Len(res.errors) : res.errors[k].postUri = 0}

\* the message of the exception that ended the try block of run r early
ExceptionMessage(r) ==
  IF ~account.exists THEN "User account not found"
  ELSE IF ~account.ids THEN "Missing ATProto credentials"
  ELSE IF ~run[r].fetched THEN "Failed to fetch author feed"
  ELSE "Database error"

\* C14: a run that an exception of validation, client construction, fetch,
\* filtering or the account update has taken out of its try block goes on to
\* log and return, with success = false and exactly one errors[] entry of
\* postUri "general", which carries the message of the exception; a run that
\* came through has no such entry
C14_ExceptionCaught ==
  \A r \in Runs :
    (run[r].pc = "log" \/ (run[r].pc = "return" /\ run[r].logged)) =>
      IF run[r].result.success
        THEN GeneralEntries(run[r].result) = {}
        ELSE /\ GeneralEntries(run[r].result) = {Len(run[r].result.errors)}
             /\ run[r].result.errors[Len(run[r].result.errors)].message
                  = ExceptionMessage(r)
             /\ ~run[r].result.errors[Len(run[r].result.errors)].retryable

\* the account update threw after a batch in which a post had failed: the
\* result holds the entry of the post and the general entry
C14_Witness ==
  \E r \in Runs :
    /\ run[r].pc = "return" /\ run[r].logged
    /\ ~run[r].result.success
    /\ Len(run[r].result.errors) = 2
    /\ run[r].result.errors[2].message = "Database error"

\* C15: a run that has fetched and gone through its batch, with no exception
\* of the store, has written the time of the update and the cursor the
\* fetcher returned to the account, however many posts of the batch failed
C15_AccountUpdated ==
  \A r \in Runs :
    (/\ run[r].pc \in {"log", "return"}
     /\ run[r].fetched
     /\ GeneralEntries(run[r].result) = {}) =>
      /\ run[r].result.success
      /\ account.last_sync_at = now
      /\ account.last_sync_cursor = run[r].newCursor

\* every post of a batch of two has failed and the account carries the new
\* cursor
C15_Witness ==
  \E r \in Runs :
    /\ run[r].pc = "log"
    /\ run[r].result.postsFailed = 2
    /\ run[r].result.postsSuccessful = 0
    /\ account.last_sync_at = now
    /\ account.last_sync_cursor = run[r].newCursor
    /\ run[r].newCursor # 0

\* C16: no post that fetchPosts has returned was created more than a day
\* before the call
C16_FetchWindow ==
  \A r \in Runs :
    run[r].pc = "filter" =>
      \A i \in 1..Len(run[r].posts) :
        createdAt[run[r].posts[i]] >= run[r].fetchedAt - Day

\* the same for the client that has fetchPostsWithCursor
FetchWindowCursorClient == clientKind = "cursor" => C16_FetchWindow

\* the same for an account that has synced before
FetchWindowSyncedBefore == account.last_sync_at # 0 => C16_FetchWindow

\* C17: when the stored cursor is a time more than a day before the call,
\* the first request of fetchPosts goes to the source client without a
\* cursor, whichever kind the client is
C17_StaleCursorDiscarded ==
  \A r \in Runs :
    (/\ run[r].pc = "filter"
     /\ account.last_sync_cursor # 0
     /\ account.last_sync_cursor < run[r].fetchedAt - Day) =>
      run[r].firstCursor = 0

\* the same for the client that has fetchPostsWithCursor
StaleCursorCursorClient == clientKind = "cursor" => C17_StaleCursorDiscarded

FirstPage(r) ==
  GetAuthorFeed(feed, Min(PageSize, FetchLimit), run[r].firstCursor)

\* the time filter of the call took posts out of that page
FirstPageCut(r) ==
  /\ clientKind = "cursor" \/ account.last_sync_at # 0
  /\ Len(NewerThan(FirstPage(r).posts, createdAt,
                   FallbackTime(account.last_sync_at, run[r].fetchedAt)))
       < Len(FirstPage(r).posts)

\* C19: when the loop of fetchPosts stops at a page the time filter has cut,
\* the cursor returned is not the cursor of that page
C19_CursorOfConsumedPage ==
  \A r \in Runs :
    (run[r].pc = "filter" /\ FirstPageCut(r)) =>
      run[r].newCursor # FirstPage(r).cursor

\* the post is a reply, embeds a record (with or without media), fails
\* validation, or has blank text and no embed
RejectedByChain(u) ==
  \/ HasReply(u)
  \/ EmbedType(u) \in {"app.bsky.embed.record", "app.bsky.embed.recordWithMedia"}
  \/ ~IsValid(u)
  \/ (TextBlank(u) /\ EmbedType(u) = "none")

\* the positions of the fetched list of run r that hold a rejected post
RejectedFetched(r) ==
  {i \in 1..Len(run[r].posts) : RejectedByChain(run[r].posts[i])}

\* C20: a post the filter chain rejects never has a tracking row, is never
\* handed to the batch and is never created on the destination; in the log
\* record of the run that fetched it, it is counted in posts_skipped and in
\* neither posts_synced nor posts_failed
C20_RejectedNeverSynced ==
  /\ \A u \in AllUris :
       RejectedByChain(u) =>
         /\ ~Tracked(tracking, u)
         /\ \A i \in 1..Len(dest) : dest[i].uri # u
         /\ \A r \in Runs : \A i \in 1..Len(run[r].filtered) :
              run[r].filtered[i] # u
  /\ \A r \in Runs :
       (run[r].pc = "return" /\ run[r].logged) =>
         LET l == syncLogs[Len(syncLogs)]
         IN /\ l.posts_skipped >= Cardinality(RejectedFetched(r))
            /\ l.posts_synced + l.posts_failed
                 <= Len(run[r].posts) - Cardinality(RejectedFetched(r))

\* a run fetched a quote post next to a post with blank text and images,
\* published the latter and logged one post skipped
C20_Witness ==
  \E r \in Runs :
    /\ run[r].pc = "return" /\ run[r].logged
    /\ \E i \in 1..Len(run[r].posts) :
         EmbedType(run[r].posts[i]) = "app.bsky.embed.recordWithMedia"
    /\ \E i \in 1..Len(dest) : TextBlank(dest[i].uri)
    /\ syncLogs[Len(syncLogs)].posts_skipped = 1
    /\ syncLogs[Len(syncLogs)].posts_synced = 1

RECURSIVE LeadingWhitespaceBytes(_)
\* the UTF-8 byte length of the white space at the start of the text
LeadingWhitespaceBytes(text) ==
  IF text # <<>> /\ IsWhiteSpace(Head(text))
    THEN Bytes(Head(text)) + LeadingWhitespaceBytes(Tail(text))
    ELSE 0

\* the first content of the post after its leading white space is a mention
StartsWithMention(u) ==
  \E f \in PostFacets(u) :
    f.mention /\ f.byteStart = LeadingWhitespaceBytes(PostText(u))

\* C21: with skip_mentions enabled in the stored settings, a post whose first
\* non-whitespace content is a mention facet is never tracked and never
\* created on the destination
C21_MentionPostNotPublished ==
  StoredSettings.skip_mentions =>
    \A u \in AllUris :
      StartsWithMention(u) =>
        /\ ~Tracked(tracking, u)
        /\ \A i \in 1..Len(dest) : dest[i].uri # u

\* --------------------------------------------------- calls of one function
\* The variables of the runs, which a call of a function on its own leaves
\* alone: no run has started.
runVars == <<now, account, storageKind, clientKind, feed, createdAt, feedVer,
             tracking, dest, syncLogs, run, started, returned, last>>

Parked ==
  /\ now = T0
  /\ account = [exists |-> FALSE, setup_completed |-> FALSE, tokens |-> FALSE,
                ids |-> FALSE, last_sync_at |-> 0, last_sync_cursor |-> 0]
  /\ storageKind = "memory"
  /\ clientKind = "cursor"
  /\ feed = <<>>
  /\ createdAt = [u \in AllUris |-> 0]
  /\ feedVer = 0
  /\ tracking = <<>>
  /\ dest = <<>>
  /\ syncLogs = <<>>
  /\ run = [r \in Runs |-> IdleRun]
  /\ started = 0
  /\ returned = 0
  /\ last = NoRun

\* the texts and facet lists MentionFilter.shouldSyncPost is called on
Texts == UNION {[1..n -> Chars] : n \in 0..MaxText}

ByteStarts == 0..(2 * MaxText) \cup {Bytes("flag")}

FacetSets ==
  { fs \in SUBSET [byteStart : ByteStarts, mention : BOOLEAN] :
      Cardinality(fs) <= 2 }

InitMention ==
  /\ Parked
  /\ call \in [op : {"mention"}, text : Texts, facets : FacetSets,
               settings : SettingsValues, done : {FALSE}, result : {TRUE}]

\* filter.shouldSyncPost(post, settings) of the mention filter
EvalMention ==
  /\ call.op = "mention" /\ ~call.done
  /\ call' = [call EXCEPT
                !.done = TRUE,
                !.result = MentionFilterOn(call.text, call.facets, call.settings)]
  /\ UNCHANGED runVars

NextMention == EvalMention

SpecMention == InitMention /\ [][NextMention]_vars

\* C22: with skip_mentions enabled the mention filter rejects a post exactly
\* when some mention facet has byteStart equal to the UTF-8 byte length of the
\* leading white space of the text; a mention behind a leading multi-byte
\* character is not leading, a mention behind leading tabs or spaces is
C22_LeadingMentionByBytes ==
  (call.op = "mention" /\ call.done /\ call.settings.defined
     /\ call.settings.skip_mentions) =>
    /\ (call.result = FALSE) <=>
         \E f \in call.facets :
           f.mention /\ f.byteStart = LeadingWhitespaceBytes(call.text)
    /\ (/\ call.text # <<>>
        /\ call.text[1] \in {"emoji", "flag", "cjk", "zwsp"}
        /\ \A f \in call.facets : f.mention => f.byteStart > 0)
         => call.result = TRUE
    /\ (/\ Len(call.text) > 1
        /\ call.text[1] \in {"tab", "space"}
        /\ ~IsWhiteSpace(call.text[2])
        /\ \E f \in call.facets : f.mention /\ f.byteStart = 1)
         => call.result = FALSE

\* the filter was called on a text that starts with an emoji followed by a
\* mention, and let the post through
C22_Witness ==
  /\ call.op = "mention" /\ call.done
  /\ call.settings.defined /\ call.settings.skip_mentions
  /\ call.text = <<"emoji", "a">>
  /\ call.facets = {[byteStart |-> 4, mention |-> TRUE]}
  /\ call.result = TRUE

\* ------------------------------------------------------- the filter manager
\* The filters a PostFilterManager can hold.
FilterNames == {"validation", "reply", "repost", "mention"}

\* filter.shouldSyncPost(post, settings) of the named filter
FilterResult(name, u, settings) ==
  CASE name = "validation" -> ValidationFilter(u)
    [] name = "reply" -> ReplyFilter(u)
    [] name = "repost" -> RepostFilter(u)
    [] name = "mention" -> MentionFilter(u, settings)

\* a chain that asks its first filter only
EveryFirstOnly(filters, u, settings) ==
  IF filters = <<>> THEN TRUE ELSE FilterResult(Head(filters), u, settings)

RECURSIVE Every(_, _, _)
\* this.filters.every((filter) => filter.shouldSyncPost(post, settings))
Every(filters, u, settings) ==
  IF filters = <<>> THEN TRUE
  ELSE IF FilterResult(Head(filters), u, settings)
    THEN Every(Tail(filters), u, settings)
    ELSE FALSE

\* the filter lists setFilters can install: each filter at most once
FilterLists ==
  { fl \in UNION {[1..n -> FilterNames] : n \in 0..Cardinality(FilterNames)} :
      \A i, j \in 1..Len(fl) : i # j => fl[i] # fl[j] }

Range(f) == {f[i] : i \in 1..Len(f)}

InitChain ==
  /\ Parked
  /\ call \in { c \in [op : {"chain"}, filters : FilterLists,
                       permuted : FilterLists, post : AllUris,
                       settings : SettingsValues, done : {FALSE},
                       result : {TRUE}, permutedResult : {TRUE}] :
                  Range(c.filters) = Range(c.permuted) }

\* setFilters(filters) and shouldSyncPost(post, settings), on two managers
\* that hold the same filters
EvalChain ==
  /\ call.op = "chain" /\ ~call.done
  /\ call' = [call EXCEPT
                !.done = TRUE,
                !.result = Every(call.filters, call.post, call.settings),
                !.permutedResult = Every(call.permuted, call.post, call.settings)]
  /\ UNCHANGED runVars

NextChain == EvalChain

SpecChain == InitChain /\ [][NextChain]_vars

MaxLength == 500

\* String.prototype.indexOf(pat), counted from 1; 0 when there is none
IndexOf(s, pat) ==
  LET hits == {i \in 1..(Len(s) - Len(pat) + 1) :
                 SubSeq(s, i, i + Len(pat) - 1) = pat}
  IN IF hits = {} THEN 0 ELSE CHOOSE i \in hits : \A j \in hits : i <= j

\* s.includes(pat)
Includes(s, pat) == IndexOf(s, pat) # 0

RECURSIVE ReplaceAll(_, _, _)
\* a replacement of every occurrence, left to right
ReplaceAll(s, pat, by) ==
  LET i == IndexOf(s, pat)
  IN IF i = 0 \/ pat = <<>> THEN s
     ELSE SubSeq(s, 1, i - 1) \o by \o
          ReplaceAll(SubSeq(s, i + Len(pat), Len(s)), pat, by)

\* String.prototype.replace(pat, by) with a string pattern and a replacement
\* without "$": the first occurrence is replaced
Replace(s, pat, by) ==
  LET i == IndexOf(s, pat)
  IN IF i = 0 THEN s
     ELSE SubSeq(s, 1, i - 1) \o by \o SubSeq(s, i + Len(pat), Len(s))

\* String.prototype.substring(0, n)
Prefix(s, n) == SubSeq(s, 1, IF n < Len(s) THEN n ELSE Len(s))

RECURSIVE Decimal(_)
\* `${n}` of a natural number
Decimal(n) ==
  LET digit == <<"0", "1", "2", "3", "4", "5", "6", "7", "8", "9">>
  IN IF n < 10 THEN <<digit[n + 1]>>
     ELSE Decimal(n \div 10) \o <<digit[(n % 10) + 1]>>

RECURSIVE ReplaceLinks(_, _)
\* formatForMastodon: for (const link of transformation.links)
ReplaceLinks(status, links) ==
  IF links = <<>> THEN status
  ELSE ReplaceLinks(Replace(status, Head(links).displayText, Head(links).url),
                    Tail(links))

RECURSIVE FootnoteLines(_, _)
\* formatForMastodon: the lines mentions.forEach appends, from index i on
FootnoteLines(mentions, i) ==
  IF i > Len(mentions) THEN <<>>
  ELSE <<"newline", "(">> \o Decimal(i) \o <<")", "space">> \o
       mentions[i].profileUrl \o FootnoteLines(mentions, i + 1)

\* formatForMastodon: status after the links and the footnotes
ComposedStatus(transformation) ==
  LET replaced == ReplaceLinks(transformation.text, transformation.links)
  IN IF Len(transformation.mentions) > 0
       THEN replaced \o <<"newline">> \o FootnoteLines(transformation.mentions, 1)
       ELSE replaced

\* a truncation that fills the limit
TruncateStatusToLimit(status) ==
  IF Len(status) > MaxLength
    THEN Prefix(status, MaxLength - 3) \o <<".", ".", ".">>
    ELSE status

\* a truncation that leaves out the ellipsis
TruncateStatusNoEllipsis(status) ==
  IF Len(status) > MaxLength THEN Prefix(status, MaxLength - 1) ELSE status

\* formatForMastodon: the length limit
TruncateStatus(status) ==
  IF Len(status) > MaxLength
    THEN Prefix(status, MaxLength - 4) \o <<".", ".", ".">>
    ELSE status

\* PostTransformer.formatForMastodon(transformation).status
FormatForMastodon(transformation) ==
  TruncateStatus(ComposedStatus(transformation))

\* n times the character "x"
Filler(n) == [i \in 1..n |-> "x"]

\* the texts, links and mentions formatForMastodon is called on
Bodies == UNION {[1..n -> {"a", "b"}] : n \in 0..MaxBody}

FillerLengths == {0} \cup ((MaxLength - 10)..(MaxLength + MaxOver))

LinkValues ==
  [displayText : {<<"a">>, <<"b">>}, url : {<<"h", "a">>, <<"u", "v">>}]

LinkLists == UNION {[1..n -> LinkValues] : n \in 0..2}

MentionLists ==
  { [i \in 1..n |-> [handle |-> <<"m">>, profileUrl |-> <<"p">> \o Decimal(i)]] :
      n \in 0..2 }

NoTransformation ==
  [text |-> <<>>, links |-> <<>>, mentions |-> <<>>, hashtags |-> <<>>,
   media |-> <<>>]

InitFormat ==
  /\ Parked
  /\ \E body \in Bodies, n \in FillerLengths, ls \in LinkLists,
        ms \in MentionLists :
       call = [op |-> "format", stage |-> "transformed", segments |-> <<>>,
               transformation |->
                 [NoTransformation EXCEPT !.text = body \o Filler(n),
                                          !.links = ls, !.mentions = ms],
               composed |-> <<>>, status |-> <<>>]

\* PostTransformer.formatForMastodon(transformation)
FormatStep ==
  /\ call.op = "format" /\ call.stage = "transformed"
  /\ call' = [call EXCEPT
                !.stage = "formatted",
                !.composed = ComposedStatus(call.transformation),
                !.status = FormatForMastodon(call.transformation)]
  /\ UNCHANGED runVars

NextFormat == FormatStep

SpecFormat == InitFormat /\ [][NextFormat]_vars

Formatted == call.op = "format" /\ call.stage = "formatted"

\* C24: a composed status longer than the limit is returned as its first
\* MaxLength - 4 characters followed by "...", 499 characters in all; a
\* composed status within the limit is returned as it is; the returned status
\* is never longer than the limit
C24_TruncatedToBudget ==
  Formatted =>
    /\ Len(call.composed) > MaxLength =>
         /\ call.status =
              SubSeq(call.composed, 1, MaxLength - 4) \o <<".", ".", ".">>
         /\ Len(call.status) = 499
    /\ Len(call.composed) <= MaxLength => call.status = call.composed
    /\ Len(call.status) <= MaxLength

\* a text of 490 characters grew past the limit by a link and two footnotes
\* and was cut
C24_Witness ==
  /\ Formatted
  /\ Len(call.transformation.text) = 490
  /\ Len(call.transformation.links) = 1
  /\ Len(call.transformation.mentions) = 2
  /\ Len(call.composed) > MaxLength
  /\ Len(call.status) = 499

\* the claim as stated: a truncated status is as long as the limit and ends
\* with "..."
C25_TruncatedLengthIsBudget ==
  (Formatted /\ Len(call.composed) > MaxLength) =>
    /\ Len(call.status) = MaxLength
    /\ SubSeq(call.status, Len(call.status) - 2, Len(call.status)) =
         <<".", ".", ".">>

\* C25: when truncation triggers the returned status is one character shorter
\* than the limit (MaxLength - 4 characters and "...") and its last three
\* characters are "..."
C25_TruncatedLengthBelowBudget ==
  (Formatted /\ Len(call.composed) > MaxLength) =>
    /\ Len(call.status) = MaxLength - 1
    /\ SubSeq(call.status, Len(call.status) - 2, Len(call.status)) =
         <<".", ".", ".">>

\* a text one character longer than the limit, without links and mentions,
\* was cut
C25_Witness ==
  /\ Formatted
  /\ call.transformation.links = <<>>
  /\ call.transformation.mentions = <<>>
  /\ Len(call.transformation.text) = MaxLength + 1
  /\ Len(call.status) = MaxLength - 1

\* C26: after the link loop no occurrence of a link's display text is left in
\* the composed status, for a display text that occurs in no link's url
C26_EveryOccurrenceReplaced ==
  Formatted =>
    \A i \in 1..Len(call.transformation.links) :
      LET shown == call.transformation.links[i].displayText
      IN (\A j \in 1..Len(call.transformation.links) :
            ~Includes(call.transformation.links[j].url, shown))
           => ~Includes(call.composed, shown)

\* --------------------------------------------------------- transformation
\* "https://bsky.app/profile/"
ProfilePrefix ==
  <<"h", "t", "t", "p", "s", ":", "/", "/", "b", "s", "k", "y", ".", "a", "p",
    "p", "/", "p", "r", "o", "f", "i", "l", "e", "/">>

\* "blob://"
BlobPrefix == <<"b", "l", "o", "b", ":", "/", "/">>

RECURSIVE TrimEnd(_)
\* String.prototype.trimEnd
TrimEnd(text) ==
  IF text # <<>> /\ IsWhiteSpace(text[Len(text)])
    THEN TrimEnd(SubSeq(text, 1, Len(text) - 1))
    ELSE text

\* String.prototype.trim
Trim(text) == TrimEnd(TrimStart(text))

\* a loop that numbers every footnote 1
TransformSegmentOne(acc, segment) ==
  IF segment.kind = "mention"
    THEN LET handle == Replace(segment.text, <<"@">>, <<>>)
         IN [acc EXCEPT
               !.mentions = Append(@, [handle |-> handle,
                                       profileUrl |-> ProfilePrefix \o handle]),
               !.text = @ \o <<"@">> \o handle \o <<"space", "(", "1", ")">>]
    ELSE [acc EXCEPT !.text = @ \o segment.text]

\* transformPost: the body of the loop over richText.segments(); acc holds
\* transformedText, mentions, links, hashtags and footnoteCounter
TransformSegment(acc, segment) ==
  CASE segment.kind = "mention" ->
         LET handle == Replace(segment.text, <<"@">>, <<>>)
             did == segment.ref
             profileUrl == IF did # <<>> THEN ProfilePrefix \o did
                           ELSE ProfilePrefix \o handle
         IN [acc EXCEPT
               !.mentions = Append(@, [handle |-> handle,
                                       profileUrl |-> profileUrl]),
               !.text = @ \o <<"@">> \o handle \o <<"space", "(">> \o
                        Decimal(acc.footnoteCounter) \o <<")">>,
               !.footnoteCounter = @ + 1]
    [] segment.kind = "link" ->
         [acc EXCEPT
            !.links = Append(@, [url |-> segment.ref,
                                 displayText |-> segment.text]),
            !.text = @ \o segment.text]
    [] segment.kind = "tag" ->
         [acc EXCEPT !.hashtags = Append(@, segment.ref),
                     !.text = @ \o segment.text]
    [] OTHER -> [acc EXCEPT !.text = @ \o segment.text]

RECURSIVE TransformSegments(_, _)
TransformSegments(acc, segments) ==
  IF segments = <<>> THEN acc
  ELSE TransformSegments(TransformSegment(acc, Head(segments)), Tail(segments))

\* transformPost: the media of record.embed
EmbedMedia(embed) ==
  CASE embed.type = "app.bsky.embed.images" ->
         [i \in 1..Len(embed.refs) |->
            [url |-> BlobPrefix \o embed.refs[i], type |-> "image"]]
    [] embed.type = "app.bsky.embed.video" ->
         <<[url |-> BlobPrefix \o embed.refs[1], type |-> "video"]>>
    [] OTHER -> <<>>

\* transformPost: the link of an external embed, added unless a link has
\* its url
EmbedLinks(embed, links) ==
  IF /\ embed.type = "app.bsky.embed.external"
     /\ ~\E i \in 1..Len(links) : links[i].url = embed.uri
    THEN Append(links, [url |-> embed.uri,
                        displayText |-> IF embed.title # <<>> THEN embed.title
                                        ELSE embed.uri])
    ELSE links

\* PostTransformer.transformPost on a valid post: segments are those of
\* RichText.segments(), embed is record.embed
TransformPost(segments, embed) ==
  LET acc == TransformSegments(
               [text |-> <<>>, mentions |-> <<>>, links |-> <<>>,
                hashtags |-> <<>>, footnoteCounter |-> 1], segments)
  IN [text |-> Trim(acc.text),
      media |-> EmbedMedia(embed),
      mentions |-> acc.mentions,
      links |-> EmbedLinks(embed, acc.links),
      hashtags |-> acc.hashtags]

\* the segments and embeds of the posts transformPost is called on
SegmentValues ==
  { [kind |-> "text", text |-> <<"a">>, ref |-> <<>>],
    [kind |-> "text", text |-> <<"space">>, ref |-> <<>>],
    [kind |-> "mention", text |-> <<"@", "m">>, ref |-> <<"d">>],
    [kind |-> "mention", text |-> <<"@", "n">>, ref |-> <<>>],
    [kind |-> "link", text |-> <<"m">>, ref |-> <<"u", "m">>],
    [kind |-> "tag", text |-> <<"#", "t">>, ref |-> <<"t">>] }

SegmentLists == UNION {[1..n -> SegmentValues] : n \in 0..MaxSegments}

EmbedValues ==
  { [type |-> "none", refs |-> <<>>, uri |-> <<>>, title |-> <<>>],
    [type |-> "app.bsky.embed.images", refs |-> <<<<"r">>>>, uri |-> <<>>,
     title |-> <<>>],
    [type |-> "app.bsky.embed.images", refs |-> <<<<"r">>, <<"s">>>>,
     uri |-> <<>>, title |-> <<>>],
    [type |-> "app.bsky.embed.video", refs |-> <<<<"v">>>>, uri |-> <<>>,
     title |-> <<>>],
    [type |-> "app.bsky.embed.external", refs |-> <<>>, uri |-> <<"u", "m">>,
     title |-> <<"a">>] }

InitTransform ==
  /\ Parked
  /\ \E segs \in SegmentLists, e \in EmbedValues :
       call = [op |-> "format", stage |-> "post", segments |-> segs,
               embed |-> e, transformation |-> NoTransformation,
               composed |-> <<>>, status |-> <<>>]

\* PostTransformer.transformPost(post)
TransformStep ==
  /\ call.op = "format" /\ call.stage = "post"
  /\ call' = [call EXCEPT
                !.stage = "transformed",
                !.transformation = TransformPost(call.segments, call.embed)]
  /\ UNCHANGED runVars

NextTransform == TransformStep \/ FormatStep

SpecTransform == InitTransform /\ [][NextTransform]_vars

\* the mention segments of the post, left to right
MentionSegments == SelectSeq(call.segments, LAMBDA sg : sg.kind = "mention")

\* what the claim says the body holds for the i-th mention
Emitted(i) ==
  <<"@">> \o Tail(MentionSegments[i].text) \o <<"space", "(">> \o
  Decimal(i) \o <<")">>

\* what the claim says footnote line i is
FootnoteLine(i) ==
  <<"newline", "(">> \o Decimal(i) \o <<")", "space">> \o
  call.transformation.mentions[i].profileUrl

Newlines(s) == Cardinality({i \in 1..Len(s) : s[i] = "newline"})

StartsWith(s, pre) == Len(s) >= Len(pre) /\ SubSeq(s, 1, Len(pre)) = pre

\* ATProtoPasswordClient.resolveBlobUrl: pds stands for the PDS url and the
\* fixed part of the query
ResolveBlobUrl(blobRef) == <<"p", "d", "s", "?", "c", "i", "d", "=">> \o blobRef

\* a resolution that leaves out the items whose resolution throws
ResolveBlobUrlsDropFailed(transformation, failing) ==
  [transformation EXCEPT
     !.media = SelectSeq(transformation.media,
                         LAMBDA item : Replace(item.url, BlobPrefix, <<>>) \notin failing)]

\* PostTransformer.resolveBlobUrls; failing holds the blob references for
\* which atprotoClient.resolveBlobUrl throws
ResolveBlobUrls(transformation, failing) ==
  [transformation EXCEPT
     !.media =
       [i \in 1..Len(transformation.media) |->
          LET item == transformation.media[i]
          IN IF StartsWith(item.url, BlobPrefix)
               THEN LET blobRef == Replace(item.url, BlobPrefix, <<>>)
                    IN IF blobRef \in failing THEN item
                       ELSE [item EXCEPT !.url = ResolveBlobUrl(blobRef)]
               ELSE item]]

BlobRefs == {<<"r">>, <<"s">>}

MediaValues ==
  {[url |-> BlobPrefix \o ref, type |-> "image"] : ref \in BlobRefs}
    \cup {[url |-> <<"h">>, type |-> "video"]}

MediaLists == UNION {[1..n -> MediaValues] : n \in 0..MaxMedia}

InitResolve ==
  /\ Parked
  /\ \E body \in {<<>>, <<"a">>}, ms \in MentionLists, md \in MediaLists,
        f \in SUBSET BlobRefs :
       call = [op |-> "resolve", done |-> FALSE, failing |-> f,
               transformation |->
                 [NoTransformation EXCEPT
                    !.text = body, !.mentions = ms, !.media = md,
                    !.links = IF body = <<>> THEN <<>>
                              ELSE <<[displayText |-> body, url |-> <<"u">>]>>,
                    !.hashtags = IF ms = <<>> THEN <<>> ELSE <<<<"t">>>>],
               resolved |-> NoTransformation]

\* PostTransformer.resolveBlobUrls(transformation, atprotoClient)
ResolveStep ==
  /\ call.op = "resolve" /\ ~call.done
  /\ call' = [call EXCEPT
                !.done = TRUE,
                !.resolved = ResolveBlobUrls(call.transformation, call.failing)]
  /\ UNCHANGED runVars

NextResolve == ResolveStep

SpecResolve == InitResolve /\ [][NextResolve]_vars

\* C28: resolveBlobUrls returns, with the text, mentions, links and hashtags
\* it was given and a media list of the same length and order; the url of a
\* placeholder item is the resolver's result, or the placeholder when the
\* resolver throws for it
C28_ResolveKeepsTransformation ==
  (call.op = "resolve" /\ call.done) =>
    LET t == call.transformation
        r == call.resolved
    IN /\ r.text = t.text /\ r.mentions = t.mentions
       /\ r.links = t.links /\ r.hashtags = t.hashtags
       /\ Len(r.media) = Len(t.media)
       /\ \A i \in 1..Len(t.media) :
            /\ r.media[i].type = t.media[i].type
            /\ \A ref \in BlobRefs :
                 t.media[i].url = BlobPrefix \o ref =>
                   r.media[i].url = IF ref \in call.failing
                                      THEN t.media[i].url
                                      ELSE ResolveBlobUrl(ref)
            /\ (\A ref \in BlobRefs : t.media[i].url # BlobPrefix \o ref) =>
                 r.media[i].url = t.media[i].url

\* a transformation with two placeholders was resolved while the resolver
\* threw for the first of them
C28_Witness ==
  /\ call.op = "resolve" /\ call.done
  /\ Len(call.transformation.media) = 2
  /\ call.transformation.media[1].url = BlobPrefix \o <<"r">>
  /\ call.transformation.media[2].url = BlobPrefix \o <<"s">>
  /\ call.failing = {<<"r">>}
  /\ call.resolved.media[1].url = BlobPrefix \o <<"r">>
  /\ call.resolved.media[2].url = ResolveBlobUrl(<<"s">>)

\* the sequence is strictly increasing
Increasing(s) == \A i, j \in 1..Len(s) : i < j => s[i] < s[j]

\* C29: within an attempt a media item that cannot be fetched or uploaded
\* leaves the attempt running and adds no id; an item that is uploaded adds
\* its id after the ids collected so far; a new attempt starts without ids;
\* createPost is called only after every item was tried, and the post it
\* creates carries the ids collected in that attempt
C29_MediaFailureKeepsAttempt ==
  /\ [](\A r \in Runs :
          run[r].pc = "attempt" =>
            /\ Increasing(run[r].mediaIds)
            /\ \A i \in 1..Len(run[r].mediaIds) :
                 run[r].mediaIds[i] \in 1..(run[r].mediaIdx - 1))
  /\ [][\A r \in Runs :
          /\ (run[r].pc = "attempt" /\ run'[r].mediaIdx = run[r].mediaIdx + 1) =>
               /\ run'[r].pc = "attempt"
               /\ run'[r].attempt = run[r].attempt
               /\ run'[r].calls = run[r].calls
               /\ \/ run'[r].mediaIds = run[r].mediaIds
                  \/ run'[r].mediaIds = Append(run[r].mediaIds, run[r].mediaIdx)
          /\ (run[r].pc = "attempt" /\ run'[r].pc \notin {"attempt", "idle"}) =>
               /\ run[r].mediaIdx = NumMedia(Current(r)) + 1
               /\ run'[r].calls = run[r].calls + 1
          /\ (run[r].pc # "attempt" /\ run'[r].pc = "attempt") =>
               run'[r].mediaIds = <<>> /\ run'[r].mediaIdx = 1
          /\ (run[r].pc = "attempt" /\ dest' # dest) =>
               dest' = Append(dest, [uri |-> Current(r),
                                     media |-> run[r].mediaIds])]_vars

\* a post with two images was created on the destination with the second
\* image only, on a second attempt
C29_Witness ==
  \E r \in Runs :
    /\ run[r].pc = "success"
    /\ run[r].attempt = 1
    /\ NumMedia(Current(r)) = 2
    /\ dest[Len(dest)].uri = Current(r)
    /\ dest[Len(dest)].media = <<2>>

\* ------------------------------------------------------------ retry backoff
\* The loop of crossPostWithRetry taken alone, for a post without media and a
\* retryConfig that differs from BRIDGE_CONFIG.sync.retry in maxRetries only.
\* the catch block under a given retryConfig.maxRetries
CatchRethrows(maxRetries, attempt, e) ==
  \/ attempt = maxRetries
  \/ ~IsRetryableError(e)

InitRetry ==
  /\ Parked
  /\ \E m \in 0..MaxRetryBound :
       call = [op |-> "retry", maxRetries |-> m, attempt |-> 0,
               pc |-> "attempt", calls |-> 0, sleeps |-> <<>>,
               raised |-> NoError]

\* createPost answers: the loop returns the post
RetryCreatePostOk ==
  /\ call.op = "retry"
  /\ call.pc = "attempt"
  /\ call' = [call EXCEPT !.pc = "returned", !.calls = @ + 1]
  /\ UNCHANGED runVars

\* createPost throws e: rethrow, or sleep for the backoff delay
RetryCreatePostThrows(e) ==
  /\ call.op = "retry"
  /\ call.pc = "attempt"
  /\ call' = IF CatchRethrows(call.maxRetries, call.attempt, e)
               THEN [call EXCEPT !.pc = "thrown", !.calls = @ + 1,
                                 !.raised = e]
               ELSE [call EXCEPT !.pc = "sleep", !.calls = @ + 1,
                                 !.raised = e,
                                 !.sleeps = Append(@, Delay(call.attempt))]
  /\ UNCHANGED runVars

\* the delay is over: the next iteration of the loop
RetryWake ==
  /\ call.op = "retry"
  /\ call.pc = "sleep"
  /\ call' = [call EXCEPT !.pc = "attempt", !.attempt = @ + 1]
  /\ UNCHANGED runVars

NextRetry ==
  \/ RetryCreatePostOk
  \/ \E e \in DestErrors : RetryCreatePostThrows(e)
  \/ RetryWake

SpecRetry == InitRetry /\ [][NextRetry]_vars

\* C30: the k-th failure of the loop (k counted from 0) is followed by a
\* sleep only when it is retryable and k < maxRetries; that sleep lasts
\* min(baseDelay * backoffFactor^k, maxDelay); the delays never decrease,
\* never exceed maxDelay, and the failure that ends the loop, the last
\* allowed attempt or a non-retryable one, is followed by no sleep
C30_BackoffDelays ==
  call.op = "retry" =>
    /\ Len(call.sleeps) <= call.maxRetries
    /\ \A k \in 1..Len(call.sleeps) :
         /\ call.sleeps[k] = Min(BaseDelay * Pow(BackoffFactor, k - 1), MaxDelay)
         /\ call.sleeps[k] <= MaxDelay
         /\ k > 1 => call.sleeps[k - 1] <= call.sleeps[k]
    /\ call.pc = "sleep" =>
         /\ call.attempt < call.maxRetries
         /\ IsRetryableError(call.raised)
         /\ Len(call.sleeps) = call.attempt + 1
    /\ call.pc # "sleep" => Len(call.sleeps) = call.attempt
    /\ call.pc = "thrown" =>
         /\ call.calls = call.attempt + 1
         /\ \/ call.attempt = call.maxRetries
            \/ ~IsRetryableError(call.raised)

\* the loop gave up after a sleep that the cap shortened
C30_Witness ==
  /\ call.op = "retry"
  /\ call.pc = "thrown"
  /\ call.attempt = call.maxRetries
  /\ IsRetryableError(call.raised)
  /\ Len(call.sleeps) >= 2
  /\ call.sleeps[Len(call.sleeps)] = MaxDelay
  /\ BaseDelay * Pow(BackoffFactor, Len(call.sleeps) - 1) > MaxDelay
  /\ call.sleeps[1] < call.sleeps[2]

\* ------------------------------------------------------------ content hash
\* A deployment whose feed holds the two posts of HashUris and whose tracking
\* table has a success row for some of them, written by an earlier run whose
\* account update failed; the content hash a row holds is any of the values
\* of HashValues (the post may have been rewritten since).  Nothing fails.
HashFeeds ==
  { f \in UNION {[1..n -> [uri : HashUris, at : FetchTimes]] : n \in 0..MaxFeed} :
      \A i, j \in 1..Len(f) : i < j => (f[i].at > f[j].at /\ f[i].uri # f[j].uri) }

\* the hashes of a text "a" without embed created at one of the instants
HashValues == {HashString(0, <<CharCode("a"), 48 + t, 110>>) : t \in 0..(MaxTime + 1)}

\* the tables with one success row per uri of the sequence us
TrackedTables(us) ==
  { [i \in 1..Len(us) |->
       [uri |-> us[i], status |-> "success", error_message |-> "null",
        retry_count |-> 0, max_retries |-> 3, mastodon_id |-> i,
        synced_at |-> T0, content_hash |-> h[i]]] :
      h \in [1..Len(us) -> HashValues] }

InitHash ==
  /\ now = MaxTime
  /\ feed \in HashFeeds
  /\ createdAt = [u \in AllUris |->
                    IF \E i \in 1..Len(feed) : feed[i].uri = u
                      THEN feed[CHOOSE i \in 1..Len(feed) : feed[i].uri = u].at
                             + ClockSkew(u)
                      ELSE 0]
  /\ account = [exists |-> TRUE, setup_completed |-> TRUE, tokens |-> TRUE,
                ids |-> TRUE, last_sync_at |-> 0, last_sync_cursor |-> 0]
  /\ storageKind \in {"memory", "sqlite"}
  /\ clientKind \in {"cursor", "plain"}
  /\ feedVer = 0
  /\ \E us \in {<<>>, <<1>>, <<13>>, <<1, 13>>, <<13, 1>>} :
       /\ \A i \in 1..Len(us) : \E j \in 1..Len(feed) : feed[j].uri = us[i]
       /\ tracking \in TrackedTables(us)
       /\ dest = [i \in 1..Len(us) |-> [uri |-> us[i], media |-> <<>>]]
  /\ syncLogs = <<>>
  /\ run = [r \in Runs |-> IdleRun]
  /\ started = 0
  /\ returned = 0
  /\ last = NoRun
  /\ call = NoCall

NextHash ==
  \/ \E r \in SeqRuns : StartRun(r)
  \/ \E r \in SeqRuns : FetchOk(r)
  \/ \E r \in SeqRuns : Filter(r)
  \/ \E r \in SeqRuns : CreateTracking(r)
  \/ \E r \in SeqRuns : CreatePostOk(r)
  \/ \E r \in SeqRuns : MarkSuccess(r)
  \/ \E r \in SeqRuns : UpdateAccount(r)
  \/ \E r \in SeqRuns : WriteLog(r)
  \/ \E r \in SeqRuns : Return(r)

SpecHash == InitHash /\ [][NextHash]_vars

\* the uris of the posts created on the destination since run r started
PublishedBy(r) ==
  [i \in 1..(Len(dest) - run[r].startDest) |-> dest[run[r].startDest + i].uri]

RECURSIVE IsSubsequence(_, _)
\* a is b with some elements left out
IsSubsequence(a, b) ==
  IF a = <<>> THEN TRUE
  ELSE IF b = <<>> THEN FALSE
  ELSE IF Head(a) = Head(b) THEN IsSubsequence(Tail(a), Tail(b))
  ELSE IsSubsequence(a, Tail(b))

\* C32: the posts a run has published so far are, in order, posts of the
\* fetched list, all of them before the post the batch is at; every
\* destination call (a media upload, a createPost) is made for that post
\* while the run is in an attempt for it; and the batch moves on by one post,
\* only after the post ended in success or in final failure
C32_OneAtATimeInFeedOrder ==
  /\ [](\A r \in Runs :
          run[r].pc # "idle" =>
            /\ IsSubsequence(PublishedBy(r), run[r].posts)
            /\ run[r].pc \in {"create", "attempt", "sleep", "failed"} =>
                 IsSubsequence(PublishedBy(r),
                               SubSeq(run[r].filtered, 1, run[r].idx - 1))
            /\ run[r].pc = "success" =>
                 /\ IsSubsequence(PublishedBy(r),
                                  SubSeq(run[r].filtered, 1, run[r].idx))
                 /\ dest[Len(dest)].uri = Current(r))
  /\ [][/\ Len(dest') > Len(dest) =>
            \E r \in Runs : /\ run[r].pc = "attempt"
                            /\ run'[r].calls = run[r].calls + 1
                            /\ dest' = Append(dest, [uri |-> Current(r),
                                                    media |-> run[r].mediaIds])
        /\ \A r \in Runs :
          /\ (\/ run'[r].calls = run[r].calls + 1
              \/ (run[r].mediaIdx >= 1 /\ run'[r].mediaIdx = run[r].mediaIdx + 1)) =>
               /\ run[r].pc = "attempt"
               /\ run'[r].idx = run[r].idx
               /\ run'[r].filtered = run[r].filtered
          /\ (run[r].pc \notin {"idle", "filter"} /\ run'[r].pc # "idle"
              /\ run'[r].idx # run[r].idx) =>
               /\ run[r].pc \in {"success", "failed"}
               /\ run'[r].idx = run[r].idx + 1
               /\ run'[r].filtered = run[r].filtered]_vars

\* the run sleeps before a new attempt for its second post while the first
\* post of the fetched list is the one post it has published
C32_Witness ==
  \E r \in Runs :
    /\ run[r].pc = "sleep"
    /\ run[r].idx = 2
    /\ Len(run[r].posts) = 2
    /\ run[r].posts[1] # run[r].posts[2]
    /\ NumMedia(run[r].posts[1]) > 0
    /\ PublishedBy(r) = <<run[r].posts[1]>>

\* ---------------------------------------------------------- overlapping runs
\* Two invocations of syncUser at a time, the cron job and the manual trigger
\* of the dashboard, on one store and one destination that accepts.
InitOverlap ==
  /\ Init
  /\ account.exists /\ account.setup_completed /\ account.tokens /\ account.ids
  /\ clientKind = "cursor"

NextOverlap ==
  \/ \E u \in HashUris : NewPost(u)
  \/ \E r \in Runs : StartRun(r)
  \/ \E r \in Runs : FetchOk(r)
  \/ \E r \in Runs : Filter(r)
  \/ \E r \in Runs : CreateTracking(r)
  \/ \E r \in Runs : CreatePostOk(r)
  \/ \E r \in Runs : MarkSuccess(r)
  \/ \E r \in Runs : MarkFailed(r)
  \/ \E r \in Runs : UpdateAccount(r)
  \/ \E r \in Runs : WriteLog(r)
  \/ \E r \in Runs : Return(r)

SpecOverlap == InitOverlap /\ [][NextOverlap]_vars

\* how many posts of the destination come from the source post u
TimesPublished(u) == Cardinality({i \in 1..Len(dest) : dest[i].uri = u})

\* C33: filterPosts of a run looks at the filter chain and at the rows of
\* the table only, so a run that is between its check and its create does
\* not keep the other run from passing the check for the same uri; where a
\* post is on the destination twice the store is the in-memory one, whose
\* create replaces the row (the INSERT of the SQLite store fails instead)
C33_NoMutualExclusion ==
  /\ [][\A r \in Runs :
          (run[r].pc = "filter" /\ run'[r].pc # "filter") =>
            run'[r].filtered = FilterPosts(run[r].posts, tracking)]_vars
  /\ [](\A u \in AllUris : TimesPublished(u) >= 2 => storageKind = "memory")

\* both runs took the post through the check when it had no row, each
\* created the row and the post, and the destination holds it twice
C33_Witness ==
  \E u \in AllUris :
    /\ \A r \in Runs : run[r].pc = "success" /\ Current(r) = u
                       /\ u \notin run[r].startTracked
    /\ Len(tracking) = 1
    /\ TimesPublished(u) = 2

\* ------------------------------------------------------------- cron runs
\* syncUser() run again and again by the cron job, each invocation in one
\* step, against a source that answers and a destination that accepts.  The
\* sync-log table, which nothing reads, is cut to its last record.
InitCron ==
  /\ Init
  /\ account.exists /\ account.setup_completed /\ account.tokens /\ account.ids

\* the cron job fires
CronTrigger ==
  /\ call = NoCall
  /\ call' = [op |-> "cron"]
  /\ UNCHANGED runVars

RECURSIVE SyncPostsAccepted(_, _, _, _)
\* syncPosts when every createPost answers: each post gets its row, is
\* created on the destination and has its row set to success; a create that
\* throws sets the row to failed
SyncPostsAccepted(ps, t, d, at) ==
  IF ps = <<>> THEN [t |-> t, d |-> d, successful |-> 0, failed |-> 0]
  ELSE LET u == Head(ps)
           c == TrackingCreate(storageKind, t, u)
           d1 == IF c.ok THEN Append(d, [uri |-> u, media |-> <<>>]) ELSE d
           t1 == IF c.ok THEN UpdateSuccess(c.t, u, Len(d1), at)
                         ELSE UpdateFailed(c.t, u, MessageOf(UniqueViolation))
           rest == SyncPostsAccepted(Tail(ps), t1, d1, at)
       IN [rest EXCEPT !.successful = @ + (IF c.ok THEN 1 ELSE 0),
                       !.failed = @ + (IF c.ok THEN 0 ELSE 1)]

\* what one invocation fetches, and what its batch leaves behind
CronFetch == FetchPosts(clientKind, feed, createdAt, account, now)

CronUris == [i \in 1..Len(CronFetch.posts) |-> CronFetch.posts[i].uri]

CronBatch == SyncPostsAccepted(FilterPosts(CronUris, tracking), tracking, dest, now)

CronResult ==
  [success |-> TRUE, postsProcessed |-> Len(CronUris),
   postsSuccessful |-> CronBatch.successful, postsFailed |-> CronBatch.failed,
   errors |-> <<>>]

\* one invocation of syncUser from validateSetup to the log record
CronSync ==
  /\ call.op = "cron"
  /\ tracking' = CronBatch.t
  /\ dest' = CronBatch.d
  /\ account' = [account EXCEPT !.last_sync_at = now,
                                !.last_sync_cursor = CronFetch.cursor]
  /\ syncLogs' = <<LogRecord(CronResult)>>
  /\ call' = NoCall
  /\ UNCHANGED <<now, storageKind, clientKind, feed, createdAt, feedVer, run,
                 started, returned, last>>

NextCron ==
  \/ Tick
  \/ \E u \in HashUris : NewPost(u)
  \/ CronTrigger
  \/ CronSync

\* The cron job keeps firing and every invocation it starts comes to its
\* end.  CronSync is enabled exactly when call.op = "cron" and is the one
\* step that leaves such a state, so its weak fairness is written as the
\* condition that the invocation does not stay open for ever.
SpecCron ==
  /\ InitCron /\ [][NextCron]_vars
  /\ WF_vars(CronTrigger)
  /\ []<>(call.op # "cron")

\* the post u is at the head of the feed, passes the filter chain, has no
\* row, and was written after the last run
NewAtHead(u) ==
  /\ feed # <<>>
  /\ Head(feed).uri = u
  /\ ShouldSyncPost(u, SyncUserSettings)
  /\ ~Tracked(tracking, u)
  /\ account.last_sync_at # 0
  /\ createdAt[u] > account.last_sync_at

\* C34: a post that passes the filter chain and comes to the head of the
\* feed after a run is created on the destination by some later run
C34_NewPostEventuallyPublished ==
  \A u \in HashUris : NewAtHead(u) ~> (TimesPublished(u) >= 1)

\* C35: when the batch of a run is over, no source post has been created on
\* the destination twice by that run, and the row of every post the run
\* published still says success
C35_PublishedOncePerRun ==
  \A r \in Runs :
    run[r].pc \in {"account", "log", "return"} =>
      /\ \A i, j \in 1..Len(PublishedBy(r)) :
           i # j => PublishedBy(r)[i] # PublishedBy(r)[j]
      /\ \A i \in 1..Len(PublishedBy(r)) :
           \A row \in RowsOf(tracking, PublishedBy(r)[i]) : row.status = "success"

\* C36: a run that returns after its batch has left no post of the batch
\* with a pending row: each post that passed filtering was counted once, as
\* successful or as failed; the step that counts a success is the step that
\* moves the row of that post from pending to success, the step that counts
\* a failure is the step that moves its row to failed, and postsSuccessful
\* is the number of posts the run created on the destination
C36_NoRowLeftPending ==
  /\ [](\A r \in Runs :
          (run[r].pc = "return" /\ run[r].fetched /\ run[r].result.success) =>
            /\ \A i \in 1..Len(run[r].filtered) :
                 /\ Tracked(tracking, run[r].filtered[i])
                 /\ \A row \in RowsOf(tracking, run[r].filtered[i]) :
                      row.status \in {"success", "failed"}
            /\ run[r].result.postsSuccessful + run[r].result.postsFailed
                 = Len(run[r].filtered)
            /\ run[r].result.postsSuccessful = Len(PublishedBy(r)))
  /\ [][\A r \in Runs :
          /\ run'[r].successful = run[r].successful + 1 =>
               /\ \A row \in RowsOf(tracking, Current(r)) : row.status = "pending"
               /\ \A row \in RowsOf(tracking', Current(r)) : row.status = "success"
               /\ run'[r].failed = run[r].failed
          /\ run'[r].failed = run[r].failed + 1 =>
               /\ Tracked(tracking, Current(r))
               /\ \A row \in RowsOf(tracking', Current(r)) : row.status = "failed"
               /\ run'[r].successful = run[r].successful]_vars

\* a run returned from a batch of two posts, one published and one failed
C36_Witness ==
  \E r \in Runs :
    /\ run[r].pc = "return" /\ run[r].result.success
    /\ Len(run[r].filtered) = 2
    /\ run[r].result.postsSuccessful = 1
    /\ run[r].result.postsFailed = 1
    /\ \E i \in 1..Len(tracking) : tracking[i].status = "success"
    /\ \E i \in 1..Len(tracking) : tracking[i].status = "failed"

\* a run that is past validateSetup and has no fetched list: its fetch, or
\* the construction of its clients, threw
FetchFailed(r) ==
  /\ ~run[r].fetched
  /\ run[r].pc \in {"log", "return"}
  /\ ~run[r].result.success

\* C37: a run whose source fetch or client construction throws leaves
\* last_sync_at and last_sync_cursor of the account, the tracking table and
\* the destination as they were, makes no destination call, and adds one
\* record to the sync log, with no post counted and the message of the error
C37_FailedFetchChangesOnlyLog ==
  /\ [](\A r \in Runs : FetchFailed(r) =>
          /\ Len(dest) = run[r].startDest
          /\ run[r].calls = 0 /\ run[r].mediaIdx = 0
          /\ {u \in AllUris : Tracked(tracking, u)} = run[r].startTracked
          /\ Len(run[r].result.errors) = 1
          /\ Len(syncLogs) = run[r].startLogs + (IF run[r].pc = "return" THEN 1 ELSE 0))
  /\ [][\A r \in Runs :
          (/\ run'[r] # run[r]
           /\ run[r].pc \in {"idle", "fetch", "log"}
           /\ FetchFailed(r)') =>
            /\ account'.last_sync_at = account.last_sync_at
            /\ account'.last_sync_cursor = account.last_sync_cursor
            /\ tracking' = tracking
            /\ dest' = dest
            /\ IF run[r].pc = "log"
                 THEN syncLogs' = Append(syncLogs,
                        [sync_type |-> "cron", posts_fetched |-> 0,
                         posts_synced |-> 0, posts_failed |-> 0,
                         posts_skipped |-> 0,
                         error_message |-> run[r].result.errors[1].message])
                 ELSE syncLogs' = syncLogs]_vars

\* a fetch has failed in a run that came after a run that published: the
\* account has a sync time, the table has a row, and the log has the record
C37_Witness ==
  \E r \in Runs :
    /\ FetchFailed(r) /\ run[r].pc = "return"
    /\ run[r].result.errors[1].message = FetchError.message
    /\ account.last_sync_at # 0
    /\ tracking # <<>> /\ dest # <<>>
    /\ syncLogs[Len(syncLogs)].error_message = FetchError.message

\* --------------------------------------------------------- pagination loop
\* The two pagination loops taken alone, one page request per step, with a
\* source client that answers as it likes: a page of k posts, k of them or
\* fewer newer than the time filter, with or without a next cursor. A call
\* has a limit of 1..MaxLimit and may or may not have a time filter.
MaxLimit == 4

\* a loop that throws away the page it was given
PageAnswerDropsPage(k, j, c) ==
  /\ call.op = "pages"
  /\ call.pc = "loop"
  /\ call.hasMore /\ call.len < call.limit
  /\ (~call.since => j = k)
  /\ call' = [call EXCEPT !.requests = @ + 1,
                          !.asked = Min(PageSize, call.limit - call.len),
                          !.hasMore = ~(k < PageSize \/ j < k \/ ~c)]
  /\ UNCHANGED runVars

InitPages ==
  /\ Parked
  /\ \E k \in {"cursor", "plain"}, l \in 1..MaxLimit, s \in BOOLEAN :
       call = [op |-> "pages", kind |-> k, limit |-> l, since |-> s,
               len |-> 0, hasMore |-> TRUE, requests |-> 0, asked |-> 0,
               pc |-> "loop", posts |-> 0]

\* one iteration of while (hasMore && allPosts.length < limit): the client
\* answers the request for Math.min(50, limit - allPosts.length) posts with
\* k posts, j of them newer than the time filter, and a next cursor or none
PageAnswer(k, j, c) ==
  /\ call.op = "pages"
  /\ call.pc = "loop"
  /\ call.hasMore /\ call.len < call.limit
  /\ (~call.since => j = k)
  /\ call' =
       LET rec == [call EXCEPT !.requests = @ + 1,
                               !.asked = Min(PageSize, call.limit - call.len)]
       IN IF k = 0 THEN [rec EXCEPT !.hasMore = FALSE]
          ELSE IF call.kind = "cursor"
            THEN IF call.since /\ j < k
                   THEN [rec EXCEPT !.len = @ + j, !.hasMore = FALSE]
                   ELSE [rec EXCEPT !.len = @ + k,
                                    !.hasMore = ~(k < PageSize \/ ~c)]
            ELSE [rec EXCEPT !.len = @ + j,
                             !.hasMore = ~(k < PageSize \/ (call.since /\ j < k) \/ ~c)]
  /\ UNCHANGED runVars

\* the loop condition is false: return allPosts.slice(0, limit)
PagesReturn ==
  /\ call.op = "pages"
  /\ call.pc = "loop"
  /\ ~(call.hasMore /\ call.len < call.limit)
  /\ call' = [call EXCEPT !.pc = "returned", !.posts = Min(call.len, call.limit)]
  /\ UNCHANGED runVars

NextPages ==
  \/ \E k \in 0..PageSize, j \in 0..PageSize, c \in BOOLEAN :
       j <= k /\ PageAnswer(k, j, c)
  \/ PagesReturn

\* the client answers every page request, and the loop goes on when it has
\* its answer
SpecPages == InitPages /\ [][NextPages]_vars /\ WF_vars(NextPages)

\* C38: the pagination loop returns whatever the source client answers: a
\* page that does not end the loop adds at least one post, so a call makes
\* at most limit page requests, and a call whose limit is the page size
\* makes at most one
C38_PaginationTerminates ==
  /\ [](call.op = "pages" =>
          /\ call.requests <= call.limit
          /\ call.limit = PageSize => call.requests <= 1
          /\ (call.hasMore /\ call.requests >= 1) => call.len >= call.requests
          /\ call.pc = "returned" => call.posts <= call.limit)
  /\ <>(call.op = "pages" /\ call.pc = "returned")

\* a call with the limit of one page got a full page with a next cursor, all
\* of it newer than the time filter, and returned after that one request
C38_Witness ==
  /\ call.op = "pages"
  /\ call.limit = PageSize
  /\ call.since
  /\ call.pc = "returned"
  /\ call.hasMore
  /\ call.requests = 1
  /\ call.posts = PageSize

\* ---------------------------------------------------------------- sanitize
\* sanitizePost on a post object whose record is an object of its own on the
\* heap: a post holds a reference to its record, and { ...post } copies the
\* reference. The text of a record is undefined, a number, the empty string
\* or a string with content; its facets are undefined or an array; its
\* embed is undefined or one of four embeds.
RecordTexts == {"undefined", "number", "empty", "text"}

SanitizeFacets ==
  [byteStart : {0, 1}, byteEnd : {1},
   feature : {"app.bsky.richtext.facet#link", "mention without did"}]

Embeds == {"undefined", "images: []", "images: [image]", "external",
           "video without ref"}

\* the facet arrays of the records
FacetArrays ==
  {<<>>} \cup {<<f>> : f \in SanitizeFacets}
         \cup {<<f, g>> : f \in SanitizeFacets, g \in SanitizeFacets}

\* validateFacet(facet, index).length === 0
ValidateFacet(f) ==
  /\ ~(f.byteStart >= f.byteEnd)
  /\ f.feature # "mention without did"

\* validateEmbed(embed).length === 0
ValidateEmbed(e) == e \notin {"images: []", "video without ref"}

\* validatePost(record).valid, for a record with a valid createdAt
ValidatePost(rec) ==
  /\ rec.text \notin {"undefined", "number"}
  /\ ~(rec.text \in {"undefined", "empty"} /\ rec.embed = "undefined")
  /\ rec.facets.defined =>
       \A i \in 1..Len(rec.facets.items) : ValidateFacet(rec.facets.items[i])
  /\ rec.embed # "undefined" => ValidateEmbed(rec.embed)

\* validateATProtoPost(post).valid
ValidateATProtoPost(post, heap) ==
  /\ post.cid
  /\ ValidatePost(heap[post.record])

\* sanitizePost(post): the post it returns and the heap it leaves
SanitizePost(post, heap) ==
  LET sanitized == post
      rec == heap[sanitized.record]
      rec1 == IF rec.text \in {"undefined", "number"}
                THEN [rec EXCEPT !.text = "empty"] ELSE rec
      rec2 == IF rec1.facets.defined
                THEN [rec1 EXCEPT !.facets.items = SelectSeq(@, ValidateFacet)]
                ELSE rec1
      rec3 == IF rec2.embed # "undefined" /\ ~ValidateEmbed(rec2.embed)
                THEN [rec2 EXCEPT !.embed = "undefined"] ELSE rec2
  IN [post |-> sanitized, heap |-> [heap EXCEPT ![sanitized.record] = rec3]]

InitSanitize ==
  /\ Parked
  /\ \E c \in BOOLEAN, t \in RecordTexts, e \in Embeds,
        fs \in {[defined |-> FALSE, items |-> <<>>]}
                 \cup {[defined |-> TRUE, items |-> a] : a \in FacetArrays} :
       LET rec == [text |-> t, facets |-> fs, embed |-> e]
       IN call = [op |-> "sanitize", pc |-> "input", via |-> "none",
                  post |-> [cid |-> c, record |-> 1],
                  heap |-> <<rec>>, orig |-> rec,
                  out |-> [cid |-> c, record |-> 1]]

\* validator.sanitizePost(post) called by itself
SanitizeCall ==
  /\ call.op = "sanitize"
  /\ call.pc = "input"
  /\ LET s == SanitizePost(call.post, call.heap)
     IN call' = [call EXCEPT !.pc = "returned", !.via = "sanitizePost",
                             !.out = s.post, !.heap = s.heap]
  /\ UNCHANGED runVars

\* the entry of transformPost(post): validate, and sanitize when invalid
TransformCall ==
  /\ call.op = "sanitize"
  /\ call.pc = "input"
  /\ LET s == IF ValidateATProtoPost(call.post, call.heap)
                THEN [post |-> call.post, heap |-> call.heap]
                ELSE SanitizePost(call.post, call.heap)
     IN call' = [call EXCEPT !.pc = "returned", !.via = "transformPost",
                             !.out = s.post, !.heap = s.heap]
  /\ UNCHANGED runVars

NextSanitize == SanitizeCall \/ TransformCall

SpecSanitize == InitSanitize /\ [][NextSanitize]_vars

\* C39: after sanitizePost(post), called by itself or from transformPost,
\* the record of the input post has the text, facets and embed it had
\* before the call
C39_InputRecordKept ==
  (call.op = "sanitize" /\ call.pc = "returned") =>
    call.heap[call.post.record] = call.orig

\* what the code does: the returned post has the record object of the input
\* post, so the repair is seen through both
C39_RecordShared ==
  (call.op = "sanitize" /\ call.pc = "returned") =>
    /\ call.out.record = call.post.record
    /\ LET rec == call.heap[call.post.record]
       IN (call.via = "sanitizePost" \/ ~ValidateATProtoPost(call.post, <<call.orig>>)) =>
            /\ rec.text \in {"empty", "text"}
            /\ \A i \in 1..Len(rec.facets.items) : ValidateFacet(rec.facets.items[i])
            /\ rec.embed # "undefined" => ValidateEmbed(rec.embed)

====
